---- MODULE Spec2Model ----
(***************************************************************************)
(* Ingestion-and-extraction pipeline of the Fintruth repository:           *)
(*   - the in-process pipeline lock and the three-stage orchestrator       *)
(*     (frontend/lib/pipeline/runIngestion.ts),                            *)
(*   - the transcript fetch (frontend/lib/transcript/fetchTranscript.ts),  *)
(*   - the segmenter (frontend/lib/transcript/segmentTranscript.ts),       *)
(*   - the extractor with its shared rate-limit timestamp and retry loop   *)
(*     (lib/llm/extractPredictions.ts),                                    *)
(*   - the admin reset-transcripts route,                                  *)
(*   - the rate limiter of the ingest route (frontend/lib/rateLimit.ts).   *)
(*                                                                         *)
(* Ten state machines share the module:                                    *)
(*   Spec         two callers and two channels: the lock and the           *)
(*                orchestrator, one step per await of the code, the retry  *)
(*                loop of the extractor folded into one step per block;    *)
(*   SpecStore    one caller with every option, failures of the store and  *)
(*                of the YouTube API, and the admin route;                 *)
(*   SpecPair     one caller and a channel with two videos, failures of    *)
(*                the YouTube API: the loops over the videos;              *)
(*   SpecSeg      segmentTranscript and segmentByChunkCount applied to     *)
(*                every short sequence of chunks;                          *)
(*   SpecLong     the same on chunks of up to 120 words;                   *)
(*   SpecWindow   segmentByChunkCount and segmentWithOverlap, the latter   *)
(*                one iteration of its loop per step;                      *)
(*   SpecParse    parseJsonResponse applied to responses whose elements    *)
(*                are told apart by their fields;                          *)
(*   SpecLimit    checkRateLimit called for two keys as time passes;       *)
(*   SpecRateSeq  the extractor of one caller with a clock:                *)
(*                enforceRateLimit, the model call and the backoff sleep,  *)
(*                one step per await;                                      *)
(*   SpecRate     the same extractor called by two callers at once.        *)
(* FairSpec is Spec with the weak fairness of the event loop.              *)
(***************************************************************************)
EXTENDS Integers, Sequences, FiniteSets, TLC

(***************************************************************************)
(* Program constants                                                       *)
(***************************************************************************)
MIN_WORDS_PER_BLOCK == 30
MAX_WORDS_PER_BLOCK == 120
TARGET_CHUNKS_PER_BLOCK == 5
MIN_REQUEST_INTERVAL_MS == 1000
DefaultRetries == 3

(***************************************************************************)
(* Bounds of the model                                                     *)
(***************************************************************************)
MaxItems == 2          \* predictions in one model reply
MaxRows == 2           \* Prediction rows the store holds
MaxRetries == 5        \* largest retries argument tried in SpecRate
MaxBlocks == 2         \* blocks one SpecRate caller extracts in a row
TickMs == 500          \* granularity of the clock
StartTime == 5000      \* Date.now() when the process starts
MaxTime == 40000       \* the clock stops here
MaxWaitMs == 500       \* longest wait for the model's answer or the next call
MaxChunks == 6         \* chunks in one input of the segmenter
MaxK == 2              \* largest chunksPerBlock tried
MaxBlockSize == 3      \* largest chunksPerBlock of segmentWithOverlap tried
MaxElems == 2          \* most elements of a response array parsed on its own
LimitTickMs == 30000   \* the clock step between requests to the ingest route
MaxLimitSpan == 90000  \* how long the rate limiter is watched

Channels == {"UCa", "UCb"}
Callers == {"c1", "c2"}
Videos == {"v1", "v2"}
NoVideo == "none"

Range(s) == {s[i] : i \in 1..Len(s)}

Min(a, b) == IF a < b THEN a ELSE b

RECURSIVE Pow2(_)
Pow2(n) == IF n = 0 THEN 1 ELSE 2 * Pow2(n - 1)

\* The elements of seq s that are in set S, in the order of s.
RECURSIVE Restrict(_, _)
Restrict(s, S) ==
  IF s = << >> THEN << >>
  ELSE IF Head(s) \in S THEN <<Head(s)>> \o Restrict(Tail(s), S)
       ELSE Restrict(Tail(s), S)

(***************************************************************************)
(* Segmenter.  A caption text is kept as its word count and whether its    *)
(* trimmed text ends in '.', '!' or '?'; words = 0 is an empty or          *)
(* whitespace-only text.                                                   *)
(***************************************************************************)
\* countWords of the space-join of two trimmed texts
countWords(curWords, chunk) == curWords + chunk.words

\* endsWithSentence of the running text: its last appended chunk decides
endsWithSentence(chunk) == chunk.ends

\* the loop that takes a chunk without text into the block like any other
RECURSIVE SegLoop_KeepEmpty(_, _, _, _, _, _)
SegLoop_KeepEmpty(chunks, i, curWords, curStart, curIds, blocks) ==
  IF i > Len(chunks)
  THEN IF curWords > 0
       THEN Append(blocks, [chunkIds |-> curIds, startTime |-> curStart,
                            words |-> curWords])
       ELSE blocks
  ELSE LET chunk == chunks[i] IN
       IF FALSE
       THEN SegLoop_KeepEmpty(chunks, i + 1, curWords, curStart, curIds, blocks)
       ELSE LET wordCount == countWords(curWords, chunk)
                ids == Append(curIds, chunk.id)
                isLastChunk == i = Len(chunks)
                hasEnoughWords == wordCount >= MIN_WORDS_PER_BLOCK
                isSentenceEnd == endsWithSentence(chunk)
                isTooLong == wordCount >= MAX_WORDS_PER_BLOCK
                hasEnoughChunks == Len(ids) >= TARGET_CHUNKS_PER_BLOCK
                shouldFinalize ==
                  isLastChunk \/
                  (hasEnoughWords /\ (isSentenceEnd \/ isTooLong \/ hasEnoughChunks))
            IN IF shouldFinalize
               THEN SegLoop_KeepEmpty(chunks, i + 1, 0,
                            IF i < Len(chunks) THEN chunks[i + 1].startTime
                            ELSE curStart,
                            << >>,
                            Append(blocks, [chunkIds |-> ids,
                                            startTime |-> curStart,
                                            words |-> wordCount]))
               ELSE SegLoop_KeepEmpty(chunks, i + 1, wordCount, curStart, ids, blocks)

\* the loop that closes a block at a sentence end however few its words
RECURSIVE SegLoop_NoMinWords(_, _, _, _, _, _)
SegLoop_NoMinWords(chunks, i, curWords, curStart, curIds, blocks) ==
  IF i > Len(chunks)
  THEN IF curWords > 0
       THEN Append(blocks, [chunkIds |-> curIds, startTime |-> curStart,
                            words |-> curWords])
       ELSE blocks
  ELSE LET chunk == chunks[i] IN
       IF chunk.words = 0
       THEN SegLoop_NoMinWords(chunks, i + 1, curWords, curStart, curIds, blocks)
       ELSE LET wordCount == countWords(curWords, chunk)
                ids == Append(curIds, chunk.id)
                isLastChunk == i = Len(chunks)
                hasEnoughWords == wordCount >= MIN_WORDS_PER_BLOCK
                isSentenceEnd == endsWithSentence(chunk)
                isTooLong == wordCount >= MAX_WORDS_PER_BLOCK
                hasEnoughChunks == Len(ids) >= TARGET_CHUNKS_PER_BLOCK
                shouldFinalize ==
                  isLastChunk \/
                  (isSentenceEnd \/ isTooLong \/ hasEnoughChunks)
            IN IF shouldFinalize
               THEN SegLoop_NoMinWords(chunks, i + 1, 0,
                            IF i < Len(chunks) THEN chunks[i + 1].startTime
                            ELSE curStart,
                            << >>,
                            Append(blocks, [chunkIds |-> ids,
                                            startTime |-> curStart,
                                            words |-> wordCount]))
               ELSE SegLoop_NoMinWords(chunks, i + 1, wordCount, curStart, ids, blocks)

\* the loop that closes a block as soon as it has enough words
RECURSIVE SegLoop_NoBoundary(_, _, _, _, _, _)
SegLoop_NoBoundary(chunks, i, curWords, curStart, curIds, blocks) ==
  IF i > Len(chunks)
  THEN IF curWords > 0
       THEN Append(blocks, [chunkIds |-> curIds, startTime |-> curStart,
                            words |-> curWords])
       ELSE blocks
  ELSE LET chunk == chunks[i] IN
       IF chunk.words = 0
       THEN SegLoop_NoBoundary(chunks, i + 1, curWords, curStart, curIds, blocks)
       ELSE LET wordCount == countWords(curWords, chunk)
                ids == Append(curIds, chunk.id)
                isLastChunk == i = Len(chunks)
                hasEnoughWords == wordCount >= MIN_WORDS_PER_BLOCK
                isSentenceEnd == endsWithSentence(chunk)
                isTooLong == wordCount >= MAX_WORDS_PER_BLOCK
                hasEnoughChunks == Len(ids) >= TARGET_CHUNKS_PER_BLOCK
                shouldFinalize ==
                  isLastChunk \/
                  hasEnoughWords
            IN IF shouldFinalize
               THEN SegLoop_NoBoundary(chunks, i + 1, 0,
                            IF i < Len(chunks) THEN chunks[i + 1].startTime
                            ELSE curStart,
                            << >>,
                            Append(blocks, [chunkIds |-> ids,
                                            startTime |-> curStart,
                                            words |-> wordCount]))
               ELSE SegLoop_NoBoundary(chunks, i + 1, wordCount, curStart, ids, blocks)

\* the loop without its limit of words
RECURSIVE SegLoop_NoTooLong(_, _, _, _, _, _)
SegLoop_NoTooLong(chunks, i, curWords, curStart, curIds, blocks) ==
  IF i > Len(chunks)
  THEN IF curWords > 0
       THEN Append(blocks, [chunkIds |-> curIds, startTime |-> curStart,
                            words |-> curWords])
       ELSE blocks
  ELSE LET chunk == chunks[i] IN
       IF chunk.words = 0
       THEN SegLoop_NoTooLong(chunks, i + 1, curWords, curStart, curIds, blocks)
       ELSE LET wordCount == countWords(curWords, chunk)
                ids == Append(curIds, chunk.id)
                isLastChunk == i = Len(chunks)
                hasEnoughWords == wordCount >= MIN_WORDS_PER_BLOCK
                isSentenceEnd == endsWithSentence(chunk)
                isTooLong == FALSE
                hasEnoughChunks == Len(ids) >= TARGET_CHUNKS_PER_BLOCK
                shouldFinalize ==
                  isLastChunk \/
                  (hasEnoughWords /\ (isSentenceEnd \/ isTooLong \/ hasEnoughChunks))
            IN IF shouldFinalize
               THEN SegLoop_NoTooLong(chunks, i + 1, 0,
                            IF i < Len(chunks) THEN chunks[i + 1].startTime
                            ELSE curStart,
                            << >>,
                            Append(blocks, [chunkIds |-> ids,
                                            startTime |-> curStart,
                                            words |-> wordCount]))
               ELSE SegLoop_NoTooLong(chunks, i + 1, wordCount, curStart, ids, blocks)

\* the for loop of segmentTranscript and the block of remaining text after it
RECURSIVE SegLoop(_, _, _, _, _, _)
SegLoop(chunks, i, curWords, curStart, curIds, blocks) ==
  IF i > Len(chunks)
  THEN IF curWords > 0
       THEN Append(blocks, [chunkIds |-> curIds, startTime |-> curStart,
                            words |-> curWords])
       ELSE blocks
  ELSE LET chunk == chunks[i] IN
       IF chunk.words = 0
       THEN SegLoop(chunks, i + 1, curWords, curStart, curIds, blocks)
       ELSE LET wordCount == countWords(curWords, chunk)
                ids == Append(curIds, chunk.id)
                isLastChunk == i = Len(chunks)
                hasEnoughWords == wordCount >= MIN_WORDS_PER_BLOCK
                isSentenceEnd == endsWithSentence(chunk)
                isTooLong == wordCount >= MAX_WORDS_PER_BLOCK
                hasEnoughChunks == Len(ids) >= TARGET_CHUNKS_PER_BLOCK
                shouldFinalize ==
                  isLastChunk \/
                  (hasEnoughWords /\ (isSentenceEnd \/ isTooLong \/ hasEnoughChunks))
            IN IF shouldFinalize
               THEN SegLoop(chunks, i + 1, 0,
                            IF i < Len(chunks) THEN chunks[i + 1].startTime
                            ELSE curStart,
                            << >>,
                            Append(blocks, [chunkIds |-> ids,
                                            startTime |-> curStart,
                                            words |-> wordCount]))
               ELSE SegLoop(chunks, i + 1, wordCount, curStart, ids, blocks)

segmentTranscript(chunks) ==
  IF Len(chunks) = 0 THEN << >>
  ELSE SegLoop(chunks, 1, 0, chunks[1].startTime, << >>, << >>)

\* the words of the space-join of the trimmed texts of a slice of chunks
RECURSIVE SliceWords(_)
SliceWords(blockChunks) ==
  IF blockChunks = << >> THEN 0
  ELSE Head(blockChunks).words + SliceWords(Tail(blockChunks))

\* the loop that keeps the slices whose joined text is empty
RECURSIVE CountLoop_KeepEmpty(_, _, _, _)
CountLoop_KeepEmpty(chunks, chunksPerBlock, i, blocks) ==
  IF i > Len(chunks) THEN blocks
  ELSE LET blockChunks == SubSeq(chunks, i, Min(i + chunksPerBlock - 1,
                                                Len(chunks)))
           chunkIds == [j \in 1..Len(blockChunks) |-> blockChunks[j].id]
       IN CountLoop_KeepEmpty(chunks, chunksPerBlock, i + chunksPerBlock,
                              Append(blocks,
                                     [chunkIds |-> chunkIds,
                                      startTime |-> blockChunks[1].startTime,
                                      words |-> SliceWords(blockChunks)]))

\* the for loop of segmentByChunkCount, i counted from 1
RECURSIVE CountLoop(_, _, _, _)
CountLoop(chunks, chunksPerBlock, i, blocks) ==
  IF i > Len(chunks) THEN blocks
  ELSE LET blockChunks == SubSeq(chunks, i, Min(i + chunksPerBlock - 1,
                                                Len(chunks)))
           chunkIds == [j \in 1..Len(blockChunks) |-> blockChunks[j].id]
       IN CountLoop(chunks, chunksPerBlock, i + chunksPerBlock,
                    IF SliceWords(blockChunks) > 0
                    THEN Append(blocks, [chunkIds |-> chunkIds,
                                         startTime |-> blockChunks[1].startTime,
                                         words |-> SliceWords(blockChunks)])
                    ELSE blocks)

segmentByChunkCount(chunks, chunksPerBlock) ==
  IF Len(chunks) = 0 THEN << >>
  ELSE CountLoop(chunks, chunksPerBlock, 1, << >>)

(***************************************************************************)
(* Transcript collaborators.  A transcript is a sequence of caption        *)
(* entries in time order.                                                  *)
(***************************************************************************)
Entry(t, w, e) == [startTime |-> t, words |-> w, ends |-> e]

\* what the caption download or the youtube-transcript library can return
Transcripts ==
  { <<Entry(0, 40, TRUE)>>,
    <<Entry(0, 30, TRUE), Entry(4, 0, FALSE), Entry(8, 10, FALSE)>> }

\* chunkData of fetchTranscriptForVideo, with the ids the store gives
ChunkData(v, entries) ==
  [i \in 1..Len(entries) |->
     [id |-> <<v, i>>, videoId |-> v, startTime |-> entries[i].startTime,
      words |-> entries[i].words, ends |-> entries[i].ends]]

\* error messages of the transcript library, by what the code looks for
PermanentMsgs == {"Transcript is disabled on this video"}
TransientMsgs == {"network timeout"}
DbErrorMsg == "db unavailable"
TxErrorMsg == "Transaction failed"

\* a classification that takes every error for a permanent one
isPermanentError_Any(msg) == TRUE

\* permanentErrors.some(msg => errorMessage.toLowerCase().includes(...))
isPermanentError(msg) == msg \in PermanentMsgs

(***************************************************************************)
(* Extractor, pure part.  A model reply is kept as what parseJsonResponse  *)
(* looks at: whether the text has a bracketed span and whether that span   *)
(* is valid JSON, whether the text contains 'no prediction', and the kind  *)
(* of each array element.                                                  *)
(***************************************************************************)
Undefined == "undefined"
NoKeyMsg == "GEMINI_API_KEY environment variable is not set"
MaxRetriesMsg == "Max retries exceeded"
NoArrayMsg == "No JSON array found in response"
BadJsonMsg == "Failed to parse JSON"

ElemKinds == {"claim", "blank", "null"}
ElemSeqs == UNION {[1..n -> ElemKinds] : n \in 0..MaxItems}

Reply(span, noPred, elems) == [span |-> span, noPred |-> noPred, elems |-> elems]

Replies ==
  {Reply("valid", FALSE, e) : e \in ElemSeqs} \cup
  {Reply("invalid", FALSE, << >>), Reply("none", TRUE, << >>),
   Reply("none", FALSE, << >>)}

\* the elements that survive map and filter: a claim that is not blank
RECURSIVE KeepClaims(_)
KeepClaims(elems) ==
  IF elems = << >> THEN << >>
  ELSE IF Head(elems) = "claim"
       THEN <<[claim |-> "claim"]>> \o KeepClaims(Tail(elems))
       ELSE KeepClaims(Tail(elems))

\* parseJsonResponse without its test for 'no prediction'
parseJsonResponse_NoEmptyCheck(reply) ==
  IF reply.span = "none"
  THEN [ok |-> FALSE, predictions |-> << >>, error |-> NoArrayMsg]
  ELSE IF reply.span = "invalid" \/ "null" \in Range(reply.elems)
       THEN [ok |-> FALSE, predictions |-> << >>, error |-> BadJsonMsg]
       ELSE [ok |-> TRUE, predictions |-> KeepClaims(reply.elems),
             error |-> Undefined]

parseJsonResponse(reply) ==
  IF reply.span = "none"
  THEN IF reply.noPred
       THEN [ok |-> TRUE, predictions |-> << >>, error |-> Undefined]
       ELSE [ok |-> FALSE, predictions |-> << >>, error |-> NoArrayMsg]
  ELSE IF reply.span = "invalid" \/ "null" \in Range(reply.elems)
       \* JSON.parse throws, or p.claim of a null element throws inside map
       THEN [ok |-> FALSE, predictions |-> << >>, error |-> BadJsonMsg]
       ELSE [ok |-> TRUE, predictions |-> KeepClaims(reply.elems),
             error |-> Undefined]

(***************************************************************************)
(* The elements of the parsed array.  A JSON value is undefined, null, a    *)
(* number, an array, a string or an object with fields; a string is kept   *)
(* as its letters in lower case with whether it has upper-case letters and *)
(* whether it has white space around it, so that toLowerCase and trim do   *)
(* something.                                                              *)
(***************************************************************************)
Missing == [type |-> "undefined"]
JNull == [type |-> "null"]
JNum == [type |-> "number"]
JArr == [type |-> "array"]

Str(word, upper, pad) ==
  [type |-> "string", word |-> word, upper |-> upper, pad |-> pad]
Plain(word) == Str(word, FALSE, FALSE)
IsStr(value) == "word" \in DOMAIN value

\* value || fallback: undefined, null and '' are falsy
OrElse(value, fallback) ==
  IF value \in {Missing, JNull} THEN fallback
  ELSE IF IsStr(value) /\ value.word = "" /\ ~value.pad THEN fallback
  ELSE value

\* String(value) of a value that is not falsy
String(value) ==
  IF value = JNum THEN Plain("6")
  ELSE IF value = JArr THEN Plain("a,b")
  ELSE value

toLowerCase(str) == [str EXCEPT !.upper = FALSE]
trim(str) == [str EXCEPT !.pad = FALSE]

\* validateConfidence that returns what it is given
validateConfidence_AsGiven(value) == value

validateConfidence(value) ==
  LET normalized == trim(toLowerCase(value))
  IN IF normalized \in {Plain("low"), Plain("medium"), Plain("high")}
     THEN normalized
     ELSE Plain("medium")

validatePredictionType(value) ==
  LET normalized == trim(toLowerCase(value))
  IN IF normalized \in {Plain("price"), Plain("direction"),
                        Plain("relative performance"), Plain("macro")}
     THEN normalized
     ELSE Plain("direction")

\* p.name; a number, a string or an array has none of the fields read
Field(p, name) == IF name \in DOMAIN p THEN p[name] ELSE Missing

\* the callback of parsed.map, for an element that is not null
Normalize(p) ==
  [claim |-> String(OrElse(Field(p, "claim"), Plain(""))),
   asset |-> IF OrElse(Field(p, "asset"), Missing) = Missing THEN JNull
             ELSE String(Field(p, "asset")),
   horizonMonths |-> IF Field(p, "horizonMonths") = JNum THEN JNum ELSE JNull,
   confidence |->
     validateConfidence(String(OrElse(Field(p, "confidence"),
                                      Plain("medium")))),
   predictionType |->
     validatePredictionType(String(OrElse(Field(p, "predictionType"),
                                          Plain("direction"))))]

\* what parseJsonResponse makes of an element: it throws on null, drops a
\* claim that is blank after trim, keeps the others
ElemKind(p) ==
  IF p = JNull THEN "null"
  ELSE IF trim(Normalize(p).claim).word = "" THEN "blank"
  ELSE "claim"

\* the objects the model answers with
ClaimParts ==
  {[claim |-> Plain("btc up"), asset |-> Plain("BTC"), horizonMonths |-> JNum],
   [claim |-> JNum, horizonMonths |-> Plain("6")],
   [claim |-> Str("", FALSE, TRUE), asset |-> JNull]}

ConfidenceValues ==
  {Missing, Plain("high"), Str("high", TRUE, TRUE), Plain("certain")}

PredictionTypeValues == {Missing, Str("macro", TRUE, TRUE), Plain("guess")}

WithField(p, name, value) ==
  IF value = Missing THEN p
  ELSE [n \in DOMAIN p \cup {name} |-> IF n = name THEN value ELSE p[n]]

Elements ==
  {JNull, JNum, JArr, Plain("text")} \cup
  {WithField(WithField(part, "confidence", c), "predictionType", t) :
     part \in ClaimParts, c \in ConfidenceValues, t \in PredictionTypeValues}

(***************************************************************************)
(* The rate limiter of the ingest route.  rateLimitStore maps a key to its *)
(* entry; a key without entry has count 0.                                 *)
(***************************************************************************)
INGEST_RATE_LIMIT == [windowMs |-> 60 * 1000, maxRequests |-> 5]

RateLimitKeys == {"ingest:a", "ingest:b"}

\* checkRateLimit that goes on counting when the window is full
checkRateLimit_NeverDenies(store, key, config, now) ==
  LET entry == store[key] IN
  IF entry.count = 0 \/ now >= entry.resetAt
  THEN [store |-> [store EXCEPT ![key] = [count |-> 1,
                                          resetAt |-> now + config.windowMs]],
        result |-> [allowed |-> TRUE, remaining |-> config.maxRequests - 1,
                    resetAt |-> now + config.windowMs]]
  ELSE [store |-> [store EXCEPT ![key].count = @ + 1],
        result |-> [allowed |-> TRUE,
                    remaining |-> config.maxRequests - (entry.count + 1),
                    resetAt |-> entry.resetAt]]

checkRateLimit(store, key, config, now) ==
  LET entry == store[key] IN
  IF entry.count = 0 \/ now >= entry.resetAt
  THEN [store |-> [store EXCEPT ![key] = [count |-> 1,
                                          resetAt |-> now + config.windowMs]],
        result |-> [allowed |-> TRUE, remaining |-> config.maxRequests - 1,
                    resetAt |-> now + config.windowMs]]
  ELSE IF entry.count >= config.maxRequests
  THEN [store |-> store,
        result |-> [allowed |-> FALSE, remaining |-> 0,
                    resetAt |-> entry.resetAt]]
  ELSE [store |-> [store EXCEPT ![key].count = @ + 1],
        result |-> [allowed |-> TRUE,
                    remaining |-> config.maxRequests - (entry.count + 1),
                    resetAt |-> entry.resetAt]]

\* what one attempt of the model call can do: throw, or return a text
Thrown(isError, msg) == [kind |-> "throw", isError |-> isError, msg |-> msg]
Text(reply) == [kind |-> "text", reply |-> reply]

ModelErrorMsgs == {"503 Service Unavailable", ""}

\* the texts the model answers with: a claim, an empty array, an array with
\* a null in it, broken JSON, 'no prediction', and prose
ModelReplies ==
  {Reply("valid", FALSE, <<"claim">>), Reply("valid", FALSE, << >>),
   Reply("valid", FALSE, <<"null">>), Reply("invalid", FALSE, << >>),
   Reply("none", TRUE, << >>), Reply("none", FALSE, << >>)}

AttemptOutcomes ==
  {Thrown(TRUE, m) : m \in ModelErrorMsgs} \cup {Thrown(FALSE, "")} \cup
  {Text(r) : r \in ModelReplies}

\* lastError = err instanceof Error ? err : new Error('Unknown error')
CaughtMessage(o) == IF o.isError THEN o.msg ELSE "Unknown error"

\* the body of the try block of one attempt
AttemptResult(o) ==
  IF o.kind = "throw"
  THEN [ok |-> FALSE, predictions |-> << >>, error |-> CaughtMessage(o)]
  ELSE parseJsonResponse(o.reply)

\* Math.min(1000 * Math.pow(2, attempt), 10000)
BackoffMs(attempt) == Min(1000 * Pow2(attempt), 10000)

\* lastError?.message || 'Max retries exceeded'
FinalError(hasLast, lastMsg) ==
  IF hasLast /\ lastMsg # "" THEN lastMsg ELSE MaxRetriesMsg

\* if (result.error)
Truthy(e) == e # Undefined /\ e # ""

RECURSIVE RetryLoop(_, _, _, _, _)
RetryLoop(outcomes, retries, attempt, hasLast, lastMsg) ==
  IF attempt >= retries
  THEN [predictions |-> << >>, error |-> FinalError(hasLast, lastMsg),
        invocations |-> attempt]
  ELSE LET r == AttemptResult(outcomes[attempt + 1]) IN
       IF r.ok
       THEN [predictions |-> r.predictions, error |-> Undefined,
             invocations |-> attempt + 1]
       ELSE RetryLoop(outcomes, retries, attempt + 1, TRUE, r.error)

\* extractPredictionsFromBlock as a function of what the model does on each
\* attempt
extractPredictionsFromBlock(hasKey, outcomes, retries) ==
  IF ~hasKey
  THEN [predictions |-> << >>, error |-> NoKeyMsg, invocations |-> 0]
  ELSE RetryLoop(outcomes, retries, 0, FALSE, "")

(***************************************************************************)
(* State                                                                   *)
(***************************************************************************)
VARIABLES
  runningPipelines, \* the in-memory lock: channel ids with a run in progress
  pc,               \* where each caller is in runIngestionPipelineWithLock
  chan,             \* its channelId
  opts,             \* its PipelineOptions
  res,              \* its PipelineResult under construction
  ret,              \* what its last call returned
  touched,          \* whether its call has invoked a collaborator or the store
  todo,             \* the videos left in the loop of the current stage
  cur,              \* the video of the current loop iteration
  blks,             \* the blocks extractPredictionsForVideo has not reached yet
  stats,            \* stats of extractPredictionsForVideo
  ftEntries,        \* normalizedTranscript of fetchTranscriptForVideo
  ftMsg             \* the error fetchTranscriptForVideo caught

VARIABLES
  catalog,          \* the finance videos of each channel on YouTube, newest first
  active,           \* the callers that make calls
  targets,          \* the channel ids they ask for
  callOptions,      \* the PipelineOptions they pass
  faults,           \* what may fail: "db" the store, "api" the YouTube Data API
  retryArgs,        \* the retries arguments extractPredictionsFromBlock gets
  env,              \* which credentials process.env holds
  seg,              \* a call of the segmenter on its own: input and output
  parse,            \* a call of parseJsonResponse on its own: text and result
  limiter,          \* rateLimitStore, the last RateLimitResult, and the history
                    \* of the calls that were allowed
  creators,         \* channel ids with a Creator row
  vids,             \* Video rows
  tfFlag,           \* videos with transcriptFetched = true
  peFlag,           \* videos with predictionsExtracted = true
  chunks,           \* TranscriptChunk rows of each video, by startTime
  predRows,         \* Prediction rows, in insertion order
  offered,          \* history: chunkIds of the blocks handed to the extractor
  permFailed,       \* history: videos whose fetch failed permanently
  adminPc,          \* where the reset-transcripts handler is
  toReset           \* its videosToReset

VARIABLES
  clock,            \* Date.now()
  lastRequestTime,  \* the shared rate-limit timestamp
  ex,               \* each caller's extractPredictionsFromBlock activation
  hist              \* history of the model invocations

callerVars == <<pc, chan, opts, res, ret, touched, todo, cur, blks, stats,
                ftEntries, ftMsg>>
dbVars == <<creators, vids, tfFlag, peFlag, chunks, predRows, offered,
            permFailed>>
adminVars == <<adminPc, toReset>>
worldVars == <<catalog, active, targets, callOptions, faults, retryArgs, env,
               seg, parse, limiter>>
rateVars == <<clock, lastRequestTime, ex, hist>>
vars == <<runningPipelines, callerVars, worldVars, dbVars, adminVars, rateVars>>

(***************************************************************************)
(* Orchestrator                                                            *)
(***************************************************************************)
NoOptions ==
  [skipVideoFetch |-> FALSE, skipTranscriptFetch |-> FALSE,
   skipPredictionExtraction |-> FALSE]

SkipAll ==
  [skipVideoFetch |-> TRUE, skipTranscriptFetch |-> TRUE,
   skipPredictionExtraction |-> TRUE]

EmptyResult ==
  [creatorId |-> "",
   videoFetch |-> [success |-> FALSE, videosInserted |-> 0, errors |-> << >>],
   transcriptFetch |-> [success |-> FALSE, videosProcessed |-> 0,
                        totalChunks |-> 0, errors |-> << >>],
   predictionExtraction |-> [success |-> FALSE, videosProcessed |-> 0,
                             totalPredictions |-> 0, errors |-> << >>]]

EmptyStats == [block |-> 0, blocksWithPredictions |-> 0,
               totalPredictions |-> 0, errors |-> << >>]

Envs == {[gemini |-> TRUE, youtube |-> TRUE],
         [gemini |-> FALSE, youtube |-> TRUE],
         [gemini |-> TRUE, youtube |-> FALSE]}

isPipelineRunning(set, channelId) == channelId \in set

\* markPipelineRunning without its check of the set
markPipelineRunning_NoCheck(set, channelId) ==
  [ret |-> TRUE, set |-> set \cup {channelId}]

\* markPipelineRunning without its add
markPipelineRunning_NoAdd(set, channelId) ==
  IF channelId \in set
  THEN [ret |-> FALSE, set |-> set]
  ELSE [ret |-> TRUE, set |-> set]

markPipelineRunning(set, channelId) ==
  IF channelId \in set
  THEN [ret |-> FALSE, set |-> set]
  ELSE [ret |-> TRUE, set |-> set \cup {channelId}]

\* markPipelineComplete without its delete
markPipelineComplete_NoDelete(set, channelId) == set

markPipelineComplete(set, channelId) == set \ {channelId}

\* the states of a caller between the start of runIngestionPipeline and
\* the end of the finally block
RunningPcs ==
  {"stage1", "creator", "stage2", "s2loop", "ft_find", "ft_fetch", "ft_tx",
   "ft_mark", "stage3", "s3loop", "s3_chunks", "s3_markempty", "ex_block",
   "ex_mark", "finally"}

\* no attempt of the activation has settled yet
NoOutcome == [kind |-> "none"]

\* no call of the segmenter on its own
SegIdle ==
  [pc |-> "idle", chunks |-> << >>, k |-> 0, overlap |-> 0, i |-> 0,
   blocks |-> << >>]

\* the rate limiter of the ingest route before any request
NoEntry == [count |-> 0, resetAt |-> 0]
NoResult == [allowed |-> TRUE, remaining |-> 0, resetAt |-> 0]

LimiterIdle ==
  [store |-> [key \in RateLimitKeys |-> NoEntry],
   result |-> [key \in RateLimitKeys |-> NoResult],
   log |-> [key \in RateLimitKeys |-> << >>]]

ParseIdle ==
  [pc |-> "idle", reply |-> Reply("none", FALSE, << >>),
   result |-> [ok |-> FALSE, predictions |-> << >>, error |-> Undefined]]

\* a call of a segmenter with its input
SegCall(input) == [SegIdle EXCEPT !.pc = "input", !.chunks = input]

\* an activation record of extractPredictionsFromBlock before the call
ExIdle ==
  [pc |-> "idle", block |-> 0, retries |-> 0, attempt |-> 0, wakeAt |-> 0,
   since |-> StartTime, settled |-> NoOutcome,
   hasLast |-> FALSE, lastMsg |-> "",
   predictions |-> << >>, error |-> Undefined, invocations |-> 0]

\* history of the model invocations: how many there were (2: two or more)
\* and the time between the last two, cut off at the minimum interval
NoHistory == [n |-> 0, gap |-> 0]

\* the state of a fresh process over an empty store
InitState ==
  /\ runningPipelines = {}
  /\ pc = [c \in Callers |-> "idle"]
  /\ chan = [c \in Callers |-> "UCa"]
  /\ opts = [c \in Callers |-> NoOptions]
  /\ res = [c \in Callers |-> EmptyResult]
  /\ ret = [c \in Callers |-> "none"]
  /\ touched = [c \in Callers |-> FALSE]
  /\ todo = [c \in Callers |-> << >>]
  /\ cur = [c \in Callers |-> NoVideo]
  /\ blks = [c \in Callers |-> << >>]
  /\ stats = [c \in Callers |-> EmptyStats]
  /\ ftEntries = [c \in Callers |-> << >>]
  /\ ftMsg = [c \in Callers |-> ""]
  /\ creators = {}
  /\ vids = {}
  /\ tfFlag = {}
  /\ peFlag = {}
  /\ chunks = [v \in Videos |-> << >>]
  /\ predRows = << >>
  /\ offered = [v \in Videos |-> {}]
  /\ permFailed = {}
  /\ adminPc = "idle"
  /\ toReset = {}
  /\ clock = StartTime
  /\ lastRequestTime = 0
  /\ ex = [c \in Callers |-> ExIdle]
  /\ hist = NoHistory

\* the surroundings of a run: what YouTube holds, who calls with what, what
\* may fail, which credentials are set
InitWorld(cat, act, tgt, copts, flt, envs) ==
  /\ catalog = cat
  /\ active = act
  /\ targets = tgt
  /\ callOptions = copts
  /\ faults = flt
  /\ retryArgs = {DefaultRetries}
  /\ env \in envs
  /\ seg = SegIdle
  /\ parse = ParseIdle
  /\ limiter = LimiterIdle

OneVideo == [ch \in Channels |-> IF ch = "UCa" THEN <<"v1">> ELSE << >>]

CallOptions ==
  {NoOptions, [NoOptions EXCEPT !.skipVideoFetch = TRUE],
   [NoOptions EXCEPT !.skipTranscriptFetch = TRUE],
   [NoOptions EXCEPT !.skipPredictionExtraction = TRUE]}

\* two callers, two channels
Init ==
  /\ InitState
  /\ InitWorld(OneVideo, Callers, Channels, {NoOptions, SkipAll}, {},
               {[gemini |-> TRUE, youtube |-> TRUE],
                [gemini |-> TRUE, youtube |-> FALSE]})

\* one caller, one channel, every option, every failure, the admin route
InitStore ==
  /\ InitState
  /\ InitWorld(OneVideo, {"c1"}, {"UCa"}, CallOptions, {"db", "api"}, Envs)

\* the start of runIngestionPipelineWithLock with the refusal inside the
\* try block, so that the finally block runs for it too
WithLockEnter_RefusalInTry(c, channelId, options) ==
  LET m == markPipelineRunning(runningPipelines, channelId) IN
  /\ runningPipelines' = IF ~m.ret
                         THEN markPipelineComplete(m.set, channelId)
                         ELSE m.set
  /\ chan' = [chan EXCEPT ![c] = channelId]
  /\ opts' = [opts EXCEPT ![c] = options]
  /\ IF ~m.ret
     THEN /\ pc' = [pc EXCEPT ![c] = "ret"]
          /\ ret' = [ret EXCEPT ![c] = "null"]
     ELSE /\ pc' = [pc EXCEPT ![c] = "stage1"]
          /\ ret' = [ret EXCEPT ![c] = "none"]
  /\ UNCHANGED <<res, touched, todo, cur, blks, stats, ftEntries, ftMsg>>
  /\ UNCHANGED <<worldVars, dbVars, adminVars, rateVars>>

\* the synchronous start of runIngestionPipelineWithLock: markPipelineRunning,
\* then either return null or enter runIngestionPipeline
WithLockEnter(c, channelId, options) ==
  LET m == markPipelineRunning(runningPipelines, channelId) IN
  /\ runningPipelines' = m.set
  /\ chan' = [chan EXCEPT ![c] = channelId]
  /\ opts' = [opts EXCEPT ![c] = options]
  /\ IF ~m.ret
     THEN /\ pc' = [pc EXCEPT ![c] = "ret"]
          /\ ret' = [ret EXCEPT ![c] = "null"]
     ELSE /\ pc' = [pc EXCEPT ![c] = "stage1"]
          /\ ret' = [ret EXCEPT ![c] = "none"]
  /\ UNCHANGED <<res, touched, todo, cur, blks, stats, ftEntries, ftMsg>>
  /\ UNCHANGED <<worldVars, dbVars, adminVars, rateVars>>

runIngestionPipelineWithLock(c, channelId, options) ==
  /\ c \in active
  /\ pc[c] = "idle"
  /\ WithLockEnter(c, channelId, options)

\* POST /api/ingest/channel from the check of the lock on; no await lies
\* between isPipelineRunning and the call of runIngestionPipelineWithLock
POST(c, channelId, options) ==
  /\ c \in active
  /\ pc[c] = "idle"
  /\ IF isPipelineRunning(runningPipelines, channelId)
     THEN /\ pc' = [pc EXCEPT ![c] = "ret"]
          /\ ret' = [ret EXCEPT ![c] = "409"]
          /\ chan' = [chan EXCEPT ![c] = channelId]
          /\ opts' = [opts EXCEPT ![c] = options]
          /\ UNCHANGED <<runningPipelines, res, touched, todo, cur, blks,
                         stats, ftEntries, ftMsg>>
          /\ UNCHANGED <<worldVars, dbVars, adminVars, rateVars>>
     ELSE WithLockEnter(c, channelId, options)

\* a catch block that always blames the last stage
Attribute_LastStage(r, msg) ==
  [r EXCEPT !.predictionExtraction.errors = Append(@, msg)]

\* the catch block of runIngestionPipeline: the message goes to the first
\* stage that has not reported success
Attribute(r, msg) ==
  IF ~r.videoFetch.success
  THEN [r EXCEPT !.videoFetch.errors = Append(@, msg)]
  ELSE IF ~r.transcriptFetch.success
       THEN [r EXCEPT !.transcriptFetch.errors = Append(@, msg)]
       ELSE [r EXCEPT !.predictionExtraction.errors = Append(@, msg)]

\* an exception reaches the outer catch of runIngestionPipeline
Fatal(c, msg) ==
  /\ res' = [res EXCEPT ![c] = Attribute(res[c], msg)]
  /\ pc' = [pc EXCEPT ![c] = "finally"]

\* frame of a step of caller c that only moves the caller
Touch(c) == touched' = [touched EXCEPT ![c] = TRUE]

(***************************************************************************)
(* Stage 1: fetchVideosForChannel                                          *)
(***************************************************************************)
Stage1Skip(c) ==
  /\ pc[c] = "stage1"
  /\ opts[c].skipVideoFetch
  /\ res' = [res EXCEPT ![c].videoFetch.success = TRUE]
  /\ pc' = [pc EXCEPT ![c] = "creator"]
  /\ UNCHANGED <<runningPipelines, chan, opts, ret, touched, todo, cur, blks,
                 stats, ftEntries, ftMsg>>
  /\ UNCHANGED <<worldVars, dbVars, adminVars, rateVars>>

\* stage 1 without its own try block: the throw of fetchVideosForChannel
\* reaches the catch block of the pipeline
Stage1Throw_Fatal(c) ==
  /\ pc[c] = "stage1"
  /\ ~opts[c].skipVideoFetch
  /\ ~env.youtube \/ "api" \in faults
  /\ \E msg \in IF env.youtube THEN {"Channel not found"}
                ELSE {"YOUTUBE_API_KEY environment variable is not set"} :
       Fatal(c, msg)
  /\ touched' = [touched EXCEPT ![c] = touched[c] \/ env.youtube]
  /\ UNCHANGED <<runningPipelines, chan, opts, ret, todo, cur, blks, stats,
                 ftEntries, ftMsg>>
  /\ UNCHANGED <<worldVars, dbVars, adminVars, rateVars>>

\* fetchVideosForChannel throws: YOUTUBE_API_KEY is missing, or ensureCreator
\* fails; the inner catch records the message and the run goes on
Stage1Throw(c) ==
  /\ pc[c] = "stage1"
  /\ ~opts[c].skipVideoFetch
  /\ ~env.youtube \/ "api" \in faults
  /\ \E msg \in IF env.youtube THEN {"Channel not found"}
                ELSE {"YOUTUBE_API_KEY environment variable is not set"} :
       res' = [res EXCEPT ![c].videoFetch.errors = Append(@, msg),
                          ![c].videoFetch.success = FALSE]
  /\ touched' = [touched EXCEPT ![c] = touched[c] \/ env.youtube]
  /\ pc' = [pc EXCEPT ![c] = "creator"]
  /\ UNCHANGED <<runningPipelines, chan, opts, ret, todo, cur, blks, stats,
                 ftEntries, ftMsg>>
  /\ UNCHANGED <<worldVars, dbVars, adminVars, rateVars>>

\* fetchVideosForChannel returns: the creator exists afterwards, some of the
\* new videos were inserted, errors lists what went wrong on the way
Stage1Return(c) ==
  /\ pc[c] = "stage1"
  /\ ~opts[c].skipVideoFetch
  /\ env.youtube
  /\ \E ins \in SUBSET (Range(catalog[chan[c]]) \ vids),
        errors \in {<< >>} \cup
                   (IF "api" \in faults THEN {<<"API error">>} ELSE {}) :
       /\ creators' = creators \cup {chan[c]}
       /\ vids' = vids \cup ins
       /\ res' = [res EXCEPT ![c].videoFetch =
                    [success |-> errors = << >>,
                     videosInserted |-> Cardinality(ins), errors |-> errors]]
  /\ Touch(c)
  /\ pc' = [pc EXCEPT ![c] = "creator"]
  /\ UNCHANGED <<runningPipelines, chan, opts, ret, todo, cur, blks, stats,
                 ftEntries, ftMsg>>
  /\ UNCHANGED <<worldVars, tfFlag, peFlag, chunks, predRows, offered, permFailed, adminVars, rateVars>>

\* the lookup that lets the run go on without a creator
CreatorLookup_Continue(c) ==
  /\ pc[c] = "creator"
  /\ Touch(c)
  /\ \/ /\ res' = [res EXCEPT ![c].creatorId =
                    IF chan[c] \in creators THEN chan[c] ELSE @]
        /\ pc' = [pc EXCEPT ![c] = "stage2"]
     \/ /\ "db" \in faults
        /\ Fatal(c, DbErrorMsg)
  /\ UNCHANGED <<runningPipelines, chan, opts, ret, todo, cur, blks, stats,
                 ftEntries, ftMsg>>
  /\ UNCHANGED <<worldVars, dbVars, adminVars, rateVars>>

\* prisma.creator.findUnique, and the throw when there is no creator
CreatorLookup(c) ==
  /\ pc[c] = "creator"
  /\ Touch(c)
  /\ \/ /\ chan[c] \in creators
        /\ res' = [res EXCEPT ![c].creatorId = chan[c]]
        /\ pc' = [pc EXCEPT ![c] = "stage2"]
     \/ /\ chan[c] \notin creators
        /\ Fatal(c, "Creator not found for channel")
     \/ /\ "db" \in faults
        /\ Fatal(c, DbErrorMsg)
  /\ UNCHANGED <<runningPipelines, chan, opts, ret, todo, cur, blks, stats,
                 ftEntries, ftMsg>>
  /\ UNCHANGED <<worldVars, dbVars, adminVars, rateVars>>

(***************************************************************************)
(* Stage 2: transcripts                                                    *)
(***************************************************************************)
\* getUnfetchedVideos: the creator's videos with transcriptFetched = false,
\* newest first
getUnfetchedVideos(ch) ==
  Restrict(catalog[ch], vids \ tfFlag)

\* the list of stage 3 without the filter on predictionsExtracted
getVideosWithoutPredictions_NoFlag(ch) ==
  Restrict(catalog[ch], vids \cap tfFlag)

\* getVideosWithoutPredictions
getVideosWithoutPredictions(ch) ==
  Restrict(catalog[ch], (vids \cap tfFlag) \ peFlag)

Stage2Start(c) ==
  /\ pc[c] = "stage2"
  /\ \/ /\ opts[c].skipTranscriptFetch
        /\ res' = [res EXCEPT ![c].transcriptFetch.success = TRUE]
        /\ pc' = [pc EXCEPT ![c] = "stage3"]
        /\ UNCHANGED <<todo, touched>>
     \/ /\ ~opts[c].skipTranscriptFetch
        /\ Touch(c)
        /\ \/ /\ todo' = [todo EXCEPT ![c] = getUnfetchedVideos(chan[c])]
              /\ pc' = [pc EXCEPT ![c] = "s2loop"]
              /\ UNCHANGED res
           \/ /\ "db" \in faults
              /\ Fatal(c, DbErrorMsg)
              /\ UNCHANGED todo
  /\ UNCHANGED <<runningPipelines, chan, opts, ret, cur, blks, stats,
                 ftEntries, ftMsg>>
  /\ UNCHANGED <<worldVars, dbVars, adminVars, rateVars>>

\* the head of the for loop over unfetchedVideos
S2Loop(c) ==
  /\ pc[c] = "s2loop"
  /\ IF todo[c] = << >>
     THEN /\ res' = [res EXCEPT ![c].transcriptFetch.success = TRUE]
          /\ pc' = [pc EXCEPT ![c] = "stage3"]
          /\ cur' = [cur EXCEPT ![c] = NoVideo]
          /\ UNCHANGED todo
     ELSE /\ cur' = [cur EXCEPT ![c] = Head(todo[c])]
          /\ todo' = [todo EXCEPT ![c] = Tail(todo[c])]
          /\ pc' = [pc EXCEPT ![c] = "ft_find"]
          /\ UNCHANGED res
  /\ UNCHANGED <<runningPipelines, chan, opts, ret, touched, blks, stats,
                 ftEntries, ftMsg>>
  /\ UNCHANGED <<worldVars, dbVars, adminVars, rateVars>>

\* a loop of stage 2 that lets the failure of one video end the run
S2Record_Throw(c, success, chunksStored, error) ==
  IF success
  THEN /\ res' = [res EXCEPT ![c].transcriptFetch =
              [@ EXCEPT !.videosProcessed = @ + 1,
                        !.totalChunks = @ + chunksStored]]
       /\ pc' = [pc EXCEPT ![c] = "s2loop"]
  ELSE Fatal(c, error)

\* fetchTranscriptForVideo returns to the loop of stage 2
S2Record(c, success, chunksStored, error) ==
  /\ res' = [res EXCEPT ![c].transcriptFetch =
       IF success
       THEN [@ EXCEPT !.videosProcessed = @ + 1,
                      !.totalChunks = @ + chunksStored]
       ELSE IF Truthy(error)
            THEN [@ EXCEPT !.errors = Append(@, <<cur[c], error>>)]
            ELSE @]
  /\ pc' = [pc EXCEPT ![c] = "s2loop"]

\* prisma.video.findUnique and the two early returns
FT_Find(c) ==
  /\ pc[c] = "ft_find"
  /\ \/ IF cur[c] \notin vids
        THEN S2Record(c, FALSE, 0, "Video not found")
        ELSE IF cur[c] \in tfFlag
             THEN S2Record(c, TRUE, 0, "Transcript already fetched")
             ELSE /\ pc' = [pc EXCEPT ![c] = "ft_fetch"]
                  /\ UNCHANGED res
     \/ /\ "db" \in faults
        /\ S2Record(c, FALSE, 0, DbErrorMsg)
  /\ UNCHANGED <<runningPipelines, chan, opts, ret, touched, todo, cur, blks,
                 stats, ftEntries, ftMsg>>
  /\ UNCHANGED <<worldVars, dbVars, adminVars, rateVars>>

\* the fetch that marks a video whose transcript came back empty, as an
\* earlier version of fetchTranscriptForVideo did
FT_Fetch_MarkEmpty(c) ==
  /\ pc[c] = "ft_fetch"
  /\ \/ /\ \E entries \in Transcripts :
             ftEntries' = [ftEntries EXCEPT ![c] = entries]
        /\ pc' = [pc EXCEPT ![c] = "ft_tx"]
        /\ UNCHANGED <<res, ftMsg, permFailed, tfFlag>>
     \/ /\ S2Record(c, FALSE, 0, "No transcript available for this video")
        /\ tfFlag' = tfFlag \cup {cur[c]}
        /\ UNCHANGED <<ftEntries, ftMsg, permFailed>>
     \/ \E msg \in PermanentMsgs \cup TransientMsgs :
          /\ IF isPermanentError(msg)
             THEN /\ ftMsg' = [ftMsg EXCEPT ![c] = msg]
                  /\ pc' = [pc EXCEPT ![c] = "ft_mark"]
                  /\ permFailed' = permFailed \cup {cur[c]}
                  /\ UNCHANGED res
             ELSE /\ S2Record(c, FALSE, 0, msg)
                  /\ UNCHANGED <<permFailed, ftMsg>>
          /\ UNCHANGED <<ftEntries, tfFlag>>
  /\ UNCHANGED <<runningPipelines, chan, opts, ret, touched, todo, cur, blks,
                 stats>>
  /\ UNCHANGED <<worldVars, creators, vids, peFlag, chunks, predRows,
                 offered, adminVars, rateVars>>

\* the caption download and the youtube-transcript library
FT_Fetch(c) ==
  /\ pc[c] = "ft_fetch"
  /\ \/ \* entries from the caption download or from the library
        /\ \E entries \in Transcripts :
             ftEntries' = [ftEntries EXCEPT ![c] = entries]
        /\ pc' = [pc EXCEPT ![c] = "ft_tx"]
        /\ UNCHANGED <<res, ftMsg, permFailed>>
     \/ \* the library returns nothing: not marked, so that a later run retries
        /\ S2Record(c, FALSE, 0, "No transcript available for this video")
        /\ UNCHANGED <<ftEntries, ftMsg, permFailed>>
     \/ \* the library throws
        \E msg \in PermanentMsgs \cup TransientMsgs :
          /\ IF isPermanentError(msg)
             THEN /\ ftMsg' = [ftMsg EXCEPT ![c] = msg]
                  /\ pc' = [pc EXCEPT ![c] = "ft_mark"]
                  /\ permFailed' = permFailed \cup {cur[c]}
                  /\ UNCHANGED res
             ELSE /\ S2Record(c, FALSE, 0, msg)
                  /\ UNCHANGED <<permFailed, ftMsg>>
          /\ UNCHANGED <<ftEntries>>
  /\ UNCHANGED <<runningPipelines, chan, opts, ret, touched, todo, cur, blks,
                 stats>>
  /\ UNCHANGED <<worldVars, creators, vids, tfFlag, peFlag, chunks, predRows,
                 offered, adminVars, rateVars>>

\* the three writes without the transaction: the update of the flag fails
\* after the chunks were replaced
FT_Tx_NoTransaction(c) ==
  /\ pc[c] = "ft_tx"
  /\ \/ /\ chunks' = [chunks EXCEPT ![cur[c]] = ChunkData(cur[c], ftEntries[c])]
        /\ tfFlag' = tfFlag \cup {cur[c]}
        /\ S2Record(c, TRUE, Len(ftEntries[c]), Undefined)
     \/ /\ "db" \in faults
        /\ S2Record(c, FALSE, 0, TxErrorMsg)
        /\ chunks' = [chunks EXCEPT ![cur[c]] = ChunkData(cur[c], ftEntries[c])]
        /\ UNCHANGED tfFlag
  /\ ftEntries' = [ftEntries EXCEPT ![c] = << >>]
  /\ UNCHANGED <<runningPipelines, chan, opts, ret, touched, todo, cur, blks,
                 stats, ftMsg>>
  /\ UNCHANGED <<worldVars, creators, vids, peFlag, predRows, offered, permFailed, adminVars, rateVars>>

\* prisma.$transaction: delete the old chunks, insert the new ones, set the
\* flag; all of it or nothing
FT_Tx(c) ==
  /\ pc[c] = "ft_tx"
  /\ \/ /\ chunks' = [chunks EXCEPT ![cur[c]] = ChunkData(cur[c], ftEntries[c])]
        /\ tfFlag' = tfFlag \cup {cur[c]}
        /\ S2Record(c, TRUE, Len(ftEntries[c]), Undefined)
     \/ /\ "db" \in faults
        /\ S2Record(c, FALSE, 0, TxErrorMsg)
        /\ UNCHANGED <<chunks, tfFlag>>
  /\ ftEntries' = [ftEntries EXCEPT ![c] = << >>]
  /\ UNCHANGED <<runningPipelines, chan, opts, ret, touched, todo, cur, blks,
                 stats, ftMsg>>
  /\ UNCHANGED <<worldVars, creators, vids, peFlag, predRows, offered, permFailed, adminVars, rateVars>>

\* the update of the catch block for a permanent error; its own failure is
\* ignored
FT_Mark(c) ==
  /\ pc[c] = "ft_mark"
  /\ \/ tfFlag' = tfFlag \cup {cur[c]}
     \/ /\ "db" \in faults
        /\ UNCHANGED tfFlag
  /\ S2Record(c, FALSE, 0, ftMsg[c])
  /\ ftMsg' = [ftMsg EXCEPT ![c] = ""]
  /\ UNCHANGED <<runningPipelines, chan, opts, ret, touched, todo, cur, blks,
                 stats, ftEntries>>
  /\ UNCHANGED <<worldVars, creators, vids, peFlag, chunks, predRows, offered,
                 permFailed, adminVars, rateVars>>

(***************************************************************************)
(* Stage 3: segmentation and extraction                                    *)
(***************************************************************************)
Stage3Start(c) ==
  /\ pc[c] = "stage3"
  /\ \/ /\ opts[c].skipPredictionExtraction
        /\ res' = [res EXCEPT ![c].predictionExtraction.success = TRUE]
        /\ pc' = [pc EXCEPT ![c] = "finally"]
        /\ UNCHANGED <<todo, touched>>
     \/ /\ ~opts[c].skipPredictionExtraction
        /\ Touch(c)
        /\ \/ /\ todo' = [todo EXCEPT ![c] = getVideosWithoutPredictions(chan[c])]
              /\ pc' = [pc EXCEPT ![c] = "s3loop"]
              /\ UNCHANGED res
           \/ /\ "db" \in faults
              /\ Fatal(c, DbErrorMsg)
              /\ UNCHANGED todo
  /\ UNCHANGED <<runningPipelines, chan, opts, ret, cur, blks, stats,
                 ftEntries, ftMsg>>
  /\ UNCHANGED <<worldVars, dbVars, adminVars, rateVars>>

\* the head of the for loop over videosForPrediction
S3Loop(c) ==
  /\ pc[c] = "s3loop"
  /\ IF todo[c] = << >>
     THEN /\ res' = [res EXCEPT ![c].predictionExtraction.success = TRUE]
          /\ pc' = [pc EXCEPT ![c] = "finally"]
          /\ cur' = [cur EXCEPT ![c] = NoVideo]
          /\ UNCHANGED todo
     ELSE /\ cur' = [cur EXCEPT ![c] = Head(todo[c])]
          /\ todo' = [todo EXCEPT ![c] = Tail(todo[c])]
          /\ pc' = [pc EXCEPT ![c] = "s3_chunks"]
          /\ UNCHANGED res
  /\ UNCHANGED <<runningPipelines, chan, opts, ret, touched, blks, stats,
                 ftEntries, ftMsg>>
  /\ UNCHANGED <<worldVars, dbVars, adminVars, rateVars>>

\* the loop of stage 3 without the check for zero chunks
S3Chunks_ExtractEmpty(c) ==
  /\ pc[c] = "s3_chunks"
  /\ \/ /\ blks' = [blks EXCEPT ![c] = segmentTranscript(chunks[cur[c]])]
        /\ stats' = [stats EXCEPT ![c] = EmptyStats]
        /\ pc' = [pc EXCEPT ![c] = "ex_block"]
        /\ UNCHANGED res
     \/ /\ "db" \in faults
        /\ Fatal(c, DbErrorMsg)
        /\ UNCHANGED <<blks, stats>>
  /\ UNCHANGED <<runningPipelines, chan, opts, ret, touched, todo, cur,
                 ftEntries, ftMsg>>
  /\ UNCHANGED <<worldVars, dbVars, adminVars, rateVars>>

\* getTranscriptChunks, then segmentTranscript and the start of
\* extractPredictionsForVideo
S3Chunks(c) ==
  /\ pc[c] = "s3_chunks"
  /\ \/ /\ IF Len(chunks[cur[c]]) = 0
           THEN /\ pc' = [pc EXCEPT ![c] = "s3_markempty"]
                /\ UNCHANGED <<blks, stats>>
           ELSE /\ blks' = [blks EXCEPT ![c] = segmentTranscript(chunks[cur[c]])]
                /\ stats' = [stats EXCEPT ![c] = EmptyStats]
                /\ pc' = [pc EXCEPT ![c] = "ex_block"]
        /\ UNCHANGED res
     \/ /\ "db" \in faults
        /\ Fatal(c, DbErrorMsg)
        /\ UNCHANGED <<blks, stats>>
  /\ UNCHANGED <<runningPipelines, chan, opts, ret, touched, todo, cur,
                 ftEntries, ftMsg>>
  /\ UNCHANGED <<worldVars, dbVars, adminVars, rateVars>>

\* no chunks: predictionsExtracted is set and the loop continues
S3MarkEmpty(c) ==
  /\ pc[c] = "s3_markempty"
  /\ \/ /\ peFlag' = peFlag \cup {cur[c]}
        /\ pc' = [pc EXCEPT ![c] = "s3loop"]
        /\ UNCHANGED res
     \/ /\ "db" \in faults
        /\ Fatal(c, DbErrorMsg)
        /\ UNCHANGED peFlag
  /\ UNCHANGED <<runningPipelines, chan, opts, ret, touched, todo, cur, blks,
                 stats, ftEntries, ftMsg>>
  /\ UNCHANGED <<worldVars, creators, vids, tfFlag, chunks, predRows, offered,
                 permFailed, adminVars, rateVars>>

\* the model outcomes of the attempts of one block, as the pipeline sees them
PipelineOutcomes ==
  {Thrown(TRUE, "503 Service Unavailable"), Text(Reply("none", TRUE, << >>)),
   Text(Reply("none", FALSE, << >>))} \cup
  {Text(Reply("valid", FALSE, [i \in 1..n |-> "claim"])) : n \in 1..MaxItems}

\* what extractPredictionsFromBlock can return for a block, over the
\* outcomes of its attempts
BlockResults ==
  {extractPredictionsFromBlock(env.gemini, outcomes, DefaultRetries) :
     outcomes \in [1..DefaultRetries -> PipelineOutcomes]}

\* the rows stored by a loop that gives up at the first create that fails
RECURSIVE StoreRows_AbortOnFailure(_, _, _, _)
\* the rows of a loop that links every row to the first chunk of the video
RECURSIVE StoreRows_FirstChunkOfVideo(_, _, _, _)
StoreRows_FirstChunkOfVideo(v, block, n, created) ==
  IF n = 0 THEN << >>
  ELSE StoreRows_FirstChunkOfVideo(v, block, n - 1, created) \o
       (IF created[n]
        THEN <<[videoId |-> v, transcriptChunkId |-> <<v, 1>>,
                timestamp |-> block.startTime, item |-> n]>>
        ELSE << >>)

StoreRows_AbortOnFailure(v, block, n, created) ==
  IF n = 0 THEN << >>
  ELSE StoreRows_AbortOnFailure(v, block, n - 1, created) \o
       (IF \A i \in 1..n : created[i]
        THEN <<[videoId |-> v, transcriptChunkId |-> block.chunkIds[1],
                timestamp |-> block.startTime, item |-> n]>>
        ELSE << >>)

\* the rows prisma.prediction.create stores for one block: created(i) tells
\* whether the i-th create succeeds
RECURSIVE StoreRows(_, _, _, _)
StoreRows(v, block, n, created) ==
  IF n = 0 THEN << >>
  ELSE StoreRows(v, block, n - 1, created) \o
       (IF created[n]
        THEN <<[videoId |-> v, transcriptChunkId |-> block.chunkIds[1],
                timestamp |-> block.startTime, item |-> n]>>
        ELSE << >>)

RECURSIVE StoreErrors(_, _)
StoreErrors(n, created) ==
  IF n = 0 THEN << >>
  ELSE StoreErrors(n - 1, created) \o
       (IF created[n] THEN << >>
        ELSE <<<<"Failed to store prediction", DbErrorMsg>>>>)

\* the loop that stops at the first block whose extraction gave an error
ExBlock_BreakOnError(c) ==
  /\ pc[c] = "ex_block"
  /\ blks[c] # << >>
  /\ LET block == Head(blks[c])
         v == cur[c]
     IN \E result \in BlockResults :
          LET n == Len(result.predictions)
          IN /\ offered' = [offered EXCEPT ![v] = @ \cup {block.chunkIds}]
             /\ IF Truthy(result.error)
                THEN /\ stats' = [stats EXCEPT
                          ![c].errors = Append(@, <<"Block", stats[c].block>>),
                          ![c].block = @ + 1]
                     /\ UNCHANGED predRows
                     /\ blks' = [blks EXCEPT ![c] = << >>]
                ELSE \E created \in [1..n -> BOOLEAN] :
                       /\ \A i \in 1..n : created[i] \/ "db" \in faults
                       /\ Len(predRows) + n <= MaxRows
                       /\ predRows' = predRows \o StoreRows(v, block, n, created)
                       /\ stats' = [stats EXCEPT
                            ![c].blocksWithPredictions =
                               IF n > 0 THEN @ + 1 ELSE @,
                            ![c].totalPredictions = @ + n,
                            ![c].errors = @ \o StoreErrors(n, created),
                            ![c].block = @ + 1]
                       /\ blks' = [blks EXCEPT ![c] = Tail(blks[c])]
  /\ UNCHANGED <<runningPipelines, pc, chan, opts, res, ret, touched, todo,
                 cur, ftEntries, ftMsg>>
  /\ UNCHANGED <<worldVars, creators, vids, tfFlag, peFlag, chunks, permFailed, adminVars, rateVars>>

\* the loop that walks the blocks from the last one to the first
ExBlock_LastFirst(c) ==
  /\ pc[c] = "ex_block"
  /\ blks[c] # << >>
  /\ LET block == blks[c][Len(blks[c])]
         v == cur[c]
     IN \E result \in BlockResults :
          LET n == Len(result.predictions)
          IN /\ offered' = [offered EXCEPT ![v] = @ \cup {block.chunkIds}]
             /\ IF Truthy(result.error)
                THEN /\ stats' = [stats EXCEPT
                          ![c].errors = Append(@, <<"Block", stats[c].block>>),
                          ![c].block = @ + 1]
                     /\ UNCHANGED predRows
                ELSE \E created \in [1..n -> BOOLEAN] :
                       /\ \A i \in 1..n : created[i] \/ "db" \in faults
                       /\ Len(predRows) + n <= MaxRows
                       /\ predRows' = predRows \o StoreRows(v, block, n, created)
                       /\ stats' = [stats EXCEPT
                            ![c].blocksWithPredictions =
                               IF n > 0 THEN @ + 1 ELSE @,
                            ![c].totalPredictions = @ + n,
                            ![c].errors = @ \o StoreErrors(n, created),
                            ![c].block = @ + 1]
  /\ blks' = [blks EXCEPT ![c] = SubSeq(blks[c], 1, Len(blks[c]) - 1)]
  /\ UNCHANGED <<runningPipelines, pc, chan, opts, res, ret, touched, todo,
                 cur, ftEntries, ftMsg>>
  /\ UNCHANGED <<worldVars, creators, vids, tfFlag, peFlag, chunks, permFailed, adminVars, rateVars>>

\* one iteration of the loop of extractPredictionsForVideo: the block goes
\* to extractPredictionsFromBlock, its predictions are stored one by one
ExBlock(c) ==
  /\ pc[c] = "ex_block"
  /\ blks[c] # << >>
  /\ LET block == Head(blks[c])
         v == cur[c]
     IN \E result \in BlockResults :
          LET n == Len(result.predictions)
          IN /\ offered' = [offered EXCEPT ![v] = @ \cup {block.chunkIds}]
             /\ IF Truthy(result.error)
                THEN /\ stats' = [stats EXCEPT
                          ![c].errors = Append(@, <<"Block", stats[c].block>>),
                          ![c].block = @ + 1]
                     /\ UNCHANGED predRows
                ELSE \E created \in [1..n -> BOOLEAN] :
                       /\ \A i \in 1..n : created[i] \/ "db" \in faults
                       /\ Len(predRows) + n <= MaxRows
                       /\ predRows' = predRows \o StoreRows(v, block, n, created)
                       /\ stats' = [stats EXCEPT
                            ![c].blocksWithPredictions =
                               IF n > 0 THEN @ + 1 ELSE @,
                            ![c].totalPredictions = @ + n,
                            ![c].errors = @ \o StoreErrors(n, created),
                            ![c].block = @ + 1]
  /\ blks' = [blks EXCEPT ![c] = Tail(blks[c])]
  /\ UNCHANGED <<runningPipelines, pc, chan, opts, res, ret, touched, todo,
                 cur, ftEntries, ftMsg>>
  /\ UNCHANGED <<worldVars, creators, vids, tfFlag, peFlag, chunks, permFailed, adminVars, rateVars>>

\* after the last block
ExDone(c) ==
  /\ pc[c] = "ex_block"
  /\ blks[c] = << >>
  /\ pc' = [pc EXCEPT ![c] = "ex_mark"]
  /\ UNCHANGED <<runningPipelines, chan, opts, res, ret, touched, todo, cur,
                 blks, stats, ftEntries, ftMsg>>
  /\ UNCHANGED <<worldVars, dbVars, adminVars, rateVars>>

\* the final update made only for a video whose blocks gave no error
ExMark_OnlyIfClean(c) ==
  /\ pc[c] = "ex_mark"
  /\ \/ /\ peFlag' = IF stats[c].errors = << >> THEN peFlag \cup {cur[c]}
                      ELSE peFlag
        /\ res' = [res EXCEPT ![c].predictionExtraction =
             [@ EXCEPT !.videosProcessed = @ + 1,
                       !.totalPredictions = @ + stats[c].totalPredictions,
                       !.errors = @ \o stats[c].errors]]
        /\ pc' = [pc EXCEPT ![c] = "s3loop"]
     \/ /\ "db" \in faults
        /\ Fatal(c, DbErrorMsg)
        /\ UNCHANGED peFlag
  /\ stats' = [stats EXCEPT ![c] = EmptyStats]
  /\ UNCHANGED <<runningPipelines, chan, opts, ret, touched, todo, cur, blks,
                 ftEntries, ftMsg>>
  /\ UNCHANGED <<worldVars, creators, vids, tfFlag, chunks, predRows, offered,
                 permFailed, adminVars, rateVars>>

\* the update that ends extractPredictionsForVideo, and the bookkeeping of
\* stage 3 after it returned
ExMark(c) ==
  /\ pc[c] = "ex_mark"
  /\ \/ /\ peFlag' = peFlag \cup {cur[c]}
        /\ res' = [res EXCEPT ![c].predictionExtraction =
             [@ EXCEPT !.videosProcessed = @ + 1,
                       !.totalPredictions = @ + stats[c].totalPredictions,
                       !.errors = @ \o stats[c].errors]]
        /\ pc' = [pc EXCEPT ![c] = "s3loop"]
     \/ /\ "db" \in faults
        /\ Fatal(c, DbErrorMsg)
        /\ UNCHANGED peFlag
  /\ stats' = [stats EXCEPT ![c] = EmptyStats]
  /\ UNCHANGED <<runningPipelines, chan, opts, ret, touched, todo, cur, blks,
                 ftEntries, ftMsg>>
  /\ UNCHANGED <<worldVars, creators, vids, tfFlag, chunks, predRows, offered,
                 permFailed, adminVars, rateVars>>

\* runIngestionPipeline returns its result; the finally block of
\* runIngestionPipelineWithLock releases the lock
Finally(c) ==
  /\ pc[c] = "finally"
  /\ runningPipelines' = markPipelineComplete(runningPipelines, chan[c])
  /\ pc' = [pc EXCEPT ![c] = "ret"]
  /\ ret' = [ret EXCEPT ![c] = "result"]
  /\ cur' = [cur EXCEPT ![c] = NoVideo]
  /\ todo' = [todo EXCEPT ![c] = << >>]
  /\ blks' = [blks EXCEPT ![c] = << >>]
  /\ UNCHANGED <<chan, opts, res, touched, stats, ftEntries, ftMsg>>
  /\ UNCHANGED <<worldVars, dbVars, adminVars, rateVars>>

\* the caller has its answer and is free to call again
Forget(c) ==
  /\ pc[c] = "ret"
  /\ pc' = [pc EXCEPT ![c] = "idle"]
  /\ ret' = [ret EXCEPT ![c] = "none"]
  /\ res' = [res EXCEPT ![c] = EmptyResult]
  /\ touched' = [touched EXCEPT ![c] = FALSE]
  /\ chan' = [chan EXCEPT ![c] = "UCa"]
  /\ opts' = [opts EXCEPT ![c] = NoOptions]
  /\ UNCHANGED <<runningPipelines, todo, cur, blks, stats, ftEntries, ftMsg>>
  /\ UNCHANGED <<worldVars, dbVars, adminVars, rateVars>>

(***************************************************************************)
(* POST /api/admin/reset-transcripts                                       *)
(***************************************************************************)
\* prisma.video.findMany and the filter on _count.transcriptChunks
AdminFind ==
  /\ adminPc = "idle"
  /\ toReset' = {v \in vids \cap tfFlag : Len(chunks[v]) = 0}
  /\ adminPc' = "update"
  /\ UNCHANGED <<runningPipelines, callerVars, worldVars, dbVars, rateVars>>

\* prisma.video.updateMany
AdminUpdate ==
  /\ adminPc = "update"
  /\ \/ tfFlag' = tfFlag \ toReset
     \/ /\ "db" \in faults
        /\ UNCHANGED tfFlag
  /\ adminPc' = "idle"
  /\ toReset' = {}
  /\ UNCHANGED <<runningPipelines, callerVars, worldVars, creators, vids, peFlag,
                 chunks, predRows, offered, permFailed, rateVars>>

\* one step of the run a caller holds the lock for
RunStep(c) ==
  \/ Stage1Skip(c) \/ Stage1Throw(c) \/ Stage1Return(c) \/ CreatorLookup(c)
  \/ Stage2Start(c) \/ S2Loop(c) \/ FT_Find(c) \/ FT_Fetch(c) \/ FT_Tx(c)
  \/ FT_Mark(c) \/ Stage3Start(c) \/ S3Loop(c) \/ S3Chunks(c)
  \/ S3MarkEmpty(c) \/ ExBlock(c) \/ ExDone(c) \/ ExMark(c) \/ Finally(c)

Next ==
  \/ \E c \in Callers, ch \in targets, o \in callOptions :
       runIngestionPipelineWithLock(c, ch, o)
  \/ \E c \in Callers, ch \in targets, o \in callOptions : POST(c, ch, o)
  \/ \E c \in Callers : RunStep(c)
  \/ \E c \in Callers : Forget(c)

Spec == Init /\ [][Next]_vars

NextStore ==
  \/ Next
  \/ AdminFind
  \/ AdminUpdate

SpecStore == InitStore /\ [][NextStore]_vars

\* a channel with two videos, newest first
TwoVideos == [ch \in Channels |-> IF ch = "UCa" THEN <<"v1", "v2">> ELSE << >>]

\* one caller, one channel with two videos, calls that fail on the way
InitPair ==
  /\ InitState
  /\ InitWorld(TwoVideos, {"c1"}, {"UCa"},
               {NoOptions, [NoOptions EXCEPT !.skipVideoFetch = TRUE]},
               {"api"}, {[gemini |-> TRUE, youtube |-> TRUE]})

SpecPair == InitPair /\ [][Next]_vars

(***************************************************************************)
(* The segmenter called on its own                                         *)
(***************************************************************************)
\* the texts of the chunks of an input: no text, ten or thirty words,
\* ending a sentence or not
SegChunkKinds ==
  {<<0, FALSE>>, <<10, FALSE>>, <<10, TRUE>>, <<30, FALSE>>, <<30, TRUE>>}

\* TranscriptChunk rows of one video in time order, two seconds apart
SegInputs ==
  {ChunkData("v1", [i \in 1..Len(kinds) |->
                      Entry(2 * (i - 1), kinds[i][1], kinds[i][2])]) :
     kinds \in UNION {[1..n -> SegChunkKinds] : n \in 0..MaxChunks}}

InitSeg ==
  /\ InitState
  /\ catalog = OneVideo
  /\ active = {}
  /\ targets = {}
  /\ callOptions = {}
  /\ faults = {}
  /\ retryArgs = {DefaultRetries}
  /\ env = [gemini |-> TRUE, youtube |-> TRUE]
  /\ seg \in {SegCall(cs) : cs \in SegInputs}
  /\ parse = ParseIdle
  /\ limiter = LimiterIdle

\* segmentTranscript(chunks)
SegmentSemantic ==
  /\ seg.pc = "input"
  /\ seg' = [seg EXCEPT !.pc = "semantic",
                        !.blocks = segmentTranscript(seg.chunks)]
  /\ UNCHANGED <<runningPipelines, callerVars, catalog, active, targets,
                 callOptions, faults, retryArgs, env, parse, limiter, dbVars,
                 adminVars,
                 rateVars>>

\* segmentByChunkCount(chunks, chunksPerBlock)
SegmentByCount(chunksPerBlock) ==
  /\ seg.pc = "input"
  /\ seg' = [seg EXCEPT !.pc = "count", !.k = chunksPerBlock,
                        !.blocks = segmentByChunkCount(seg.chunks,
                                                       chunksPerBlock)]
  /\ UNCHANGED <<runningPipelines, callerVars, catalog, active, targets,
                 callOptions, faults, retryArgs, env, parse, limiter, dbVars,
                 adminVars,
                 rateVars>>

NextSeg ==
  \/ SegmentSemantic
  \/ \E chunksPerBlock \in 1..MaxK : SegmentByCount(chunksPerBlock)

SpecSeg == InitSeg /\ [][NextSeg]_vars

\* the segmenters on chunks that are long and do not end a sentence
LongChunkKinds == {<<10, FALSE>>, <<30, FALSE>>, <<50, FALSE>>, <<120, FALSE>>}

LongInputs ==
  {ChunkData("v1", [i \in 1..Len(kinds) |->
                      Entry(2 * (i - 1), kinds[i][1], kinds[i][2])]) :
     kinds \in UNION {[1..n -> LongChunkKinds] : n \in 0..MaxChunks}}

InitLong ==
  /\ InitState
  /\ catalog = OneVideo
  /\ active = {}
  /\ targets = {}
  /\ callOptions = {}
  /\ faults = {}
  /\ retryArgs = {DefaultRetries}
  /\ env = [gemini |-> TRUE, youtube |-> TRUE]
  /\ seg \in {SegCall(cs) : cs \in LongInputs}
  /\ parse = ParseIdle
  /\ limiter = LimiterIdle

SpecLong == InitLong /\ [][NextSeg]_vars

(***************************************************************************)
(* The segmenters that cut by position: only whether a chunk has text      *)
(* matters to them.  segmentWithOverlap goes one iteration of its loop at  *)
(* a time.                                                                 *)
(***************************************************************************)
WindowChunkKinds == {<<0, FALSE>>, <<10, FALSE>>}

WindowInputs ==
  {ChunkData("v1", [i \in 1..Len(kinds) |->
                      Entry(2 * (i - 1), kinds[i][1], kinds[i][2])]) :
     kinds \in UNION {[1..n -> WindowChunkKinds] : n \in 0..MaxChunks}}

InitWindow ==
  /\ InitState
  /\ catalog = OneVideo
  /\ active = {}
  /\ targets = {}
  /\ callOptions = {}
  /\ faults = {}
  /\ retryArgs = {DefaultRetries}
  /\ env = [gemini |-> TRUE, youtube |-> TRUE]
  /\ seg \in {SegCall(cs) : cs \in WindowInputs}
  /\ parse = ParseIdle
  /\ limiter = LimiterIdle

\* segmentWithOverlap(chunks, chunksPerBlock, overlapChunks) up to its loop,
\* for an overlap of at most the window
OverlapCall(chunksPerBlock, overlapChunks) ==
  /\ seg.pc = "input"
  /\ overlapChunks <= chunksPerBlock
  /\ seg' = [seg EXCEPT
               !.pc = IF Len(seg.chunks) = 0 THEN "overlap_done" ELSE "overlap",
               !.k = chunksPerBlock, !.overlap = overlapChunks, !.i = 0]
  /\ UNCHANGED <<runningPipelines, callerVars, catalog, active, targets,
                 callOptions, faults, retryArgs, env, parse, limiter, dbVars,
                 adminVars,
                 rateVars>>

\* the loop with windows that stop where the next one starts
OverlapStep_NoOverlap ==
  /\ seg.pc = "overlap"
  /\ Len(seg.blocks) <= MaxChunks
  /\ LET n == Len(seg.chunks)
         step == seg.k - seg.overlap
         blockChunks == SubSeq(seg.chunks, seg.i + 1, Min(seg.i + step, n))
         chunkIds == [j \in 1..Len(blockChunks) |-> blockChunks[j].id]
         pushed == IF SliceWords(blockChunks) > 0
                   THEN Append(seg.blocks,
                               [chunkIds |-> chunkIds,
                                startTime |-> blockChunks[1].startTime,
                                words |-> SliceWords(blockChunks)])
                   ELSE seg.blocks
     IN IF Len(blockChunks) = 0
        THEN seg' = [seg EXCEPT !.pc = "overlap_done"]
        ELSE IF seg.i + seg.k >= n
             THEN seg' = [seg EXCEPT !.pc = "overlap_done", !.blocks = pushed]
             ELSE seg' = [seg EXCEPT
                            !.blocks = pushed,
                            !.i = seg.i + step,
                            !.pc = IF seg.i + step < n THEN "overlap"
                                   ELSE "overlap_done"]
  /\ UNCHANGED <<runningPipelines, callerVars, catalog, active, targets,
                 callOptions, faults, retryArgs, env, parse, limiter, dbVars,
                 adminVars,
                 rateVars>>

\* one iteration of the for loop of segmentWithOverlap, with the increment
\* and the test of the loop that follow it; i counts from 0 as in the code
OverlapStep ==
  /\ seg.pc = "overlap"
  /\ Len(seg.blocks) <= MaxChunks
  /\ LET n == Len(seg.chunks)
         step == seg.k - seg.overlap
         blockChunks == SubSeq(seg.chunks, seg.i + 1, Min(seg.i + seg.k, n))
         chunkIds == [j \in 1..Len(blockChunks) |-> blockChunks[j].id]
         pushed == IF SliceWords(blockChunks) > 0
                   THEN Append(seg.blocks,
                               [chunkIds |-> chunkIds,
                                startTime |-> blockChunks[1].startTime,
                                words |-> SliceWords(blockChunks)])
                   ELSE seg.blocks
     IN IF Len(blockChunks) = 0
        THEN seg' = [seg EXCEPT !.pc = "overlap_done"]
        ELSE IF seg.i + seg.k >= n
             THEN seg' = [seg EXCEPT !.pc = "overlap_done", !.blocks = pushed]
             ELSE seg' = [seg EXCEPT
                            !.blocks = pushed,
                            !.i = seg.i + step,
                            !.pc = IF seg.i + step < n THEN "overlap"
                                   ELSE "overlap_done"]
  /\ UNCHANGED <<runningPipelines, callerVars, catalog, active, targets,
                 callOptions, faults, retryArgs, env, parse, limiter, dbVars,
                 adminVars,
                 rateVars>>

NextWindow ==
  \/ \E chunksPerBlock \in 1..MaxK : SegmentByCount(chunksPerBlock)
  \/ \E chunksPerBlock \in 1..MaxBlockSize, overlapChunks \in 0..MaxBlockSize :
       OverlapCall(chunksPerBlock, overlapChunks)
  \/ OverlapStep

SpecWindow == InitWindow /\ [][NextWindow]_vars

(***************************************************************************)
(* parseJsonResponse called on its own, on responses whose elements are    *)
(* told apart by their fields.                                             *)
(***************************************************************************)
ParseInputs ==
  {Reply("valid", FALSE, e) :
     e \in UNION {[1..n -> Elements] : n \in 0..MaxElems}} \cup
  {Reply(span, noPred, << >>) :
     span \in {"invalid", "none"}, noPred \in BOOLEAN}

InitParse ==
  /\ InitState
  /\ catalog = OneVideo
  /\ active = {}
  /\ targets = {}
  /\ callOptions = {}
  /\ faults = {}
  /\ retryArgs = {DefaultRetries}
  /\ env = [gemini |-> TRUE, youtube |-> TRUE]
  /\ seg = SegIdle
  /\ parse \in {[ParseIdle EXCEPT !.pc = "input", !.reply = r] :
                  r \in ParseInputs}
  /\ limiter = LimiterIdle

\* the predictions of the elements that are kept, normalized
Normalized(elems) ==
  LET kept == SelectSeq(elems, LAMBDA p : ElemKind(p) = "claim")
  IN [i \in 1..Len(kept) |-> Normalize(kept[i])]

\* parseJsonResponse(text)
ParseResponse ==
  /\ parse.pc = "input"
  /\ LET elems == parse.reply.elems
         kinds == [i \in 1..Len(elems) |-> ElemKind(elems[i])]
         r == parseJsonResponse(Reply(parse.reply.span, parse.reply.noPred,
                                      kinds))
     IN parse' = [parse EXCEPT
                    !.pc = "done",
                    !.result = IF r.ok
                               THEN [r EXCEPT !.predictions = Normalized(elems)]
                               ELSE r]
  /\ UNCHANGED <<runningPipelines, callerVars, catalog, active, targets,
                 callOptions, faults, retryArgs, env, seg, limiter, dbVars,
                 adminVars, rateVars>>

NextParse == ParseResponse

SpecParse == InitParse /\ [][NextParse]_vars

(***************************************************************************)
(* The rate limiter called on its own, as the ingest route calls it, with  *)
(* a clock that does not go back.                                          *)
(***************************************************************************)
InitLimit ==
  /\ InitState
  /\ catalog = OneVideo
  /\ active = {}
  /\ targets = {}
  /\ callOptions = {}
  /\ faults = {}
  /\ retryArgs = {DefaultRetries}
  /\ env = [gemini |-> TRUE, youtube |-> TRUE]
  /\ seg = SegIdle
  /\ parse = ParseIdle
  /\ limiter = LimiterIdle

\* checkRateLimit(key, INGEST_RATE_LIMIT) at Date.now() = clock; the log
\* keeps the times of the allowed calls of the last windowMs
CheckRateLimit(key) ==
  LET r == checkRateLimit(limiter.store, key, INGEST_RATE_LIMIT, clock)
      recent == SelectSeq(limiter.log[key],
                          LAMBDA t : t > clock - INGEST_RATE_LIMIT.windowMs)
  IN /\ limiter' = [store |-> r.store,
                    result |-> [limiter.result EXCEPT ![key] = r.result],
                    log |-> [limiter.log EXCEPT
                               ![key] = IF r.result.allowed
                                        THEN Append(recent, clock)
                                        ELSE recent]]
     /\ UNCHANGED <<runningPipelines, callerVars, catalog, active, targets,
                    callOptions, faults, retryArgs, env, seg, parse, dbVars,
                    adminVars, rateVars>>

\* cleanupRateLimitStore()
CleanupRateLimitStore ==
  /\ limiter' = [limiter EXCEPT
                   !.store = [key \in RateLimitKeys |->
                                IF clock >= limiter.store[key].resetAt
                                THEN NoEntry ELSE limiter.store[key]]]
  /\ UNCHANGED <<runningPipelines, callerVars, catalog, active, targets,
                 callOptions, faults, retryArgs, env, seg, parse, dbVars,
                 adminVars, rateVars>>

\* time passes between two requests
LimitTick ==
  /\ clock + LimitTickMs <= StartTime + MaxLimitSpan
  /\ clock' = clock + LimitTickMs
  /\ UNCHANGED <<runningPipelines, callerVars, worldVars, dbVars, adminVars,
                 lastRequestTime, ex, hist>>

NextLimit ==
  \/ \E key \in RateLimitKeys : CheckRateLimit(key)
  \/ CleanupRateLimitStore
  \/ LimitTick

SpecLimit == InitLimit /\ [][NextLimit]_vars

(***************************************************************************)
(* The pipeline lock                                                       *)
(***************************************************************************)
\* a caller is inside runIngestionPipeline for channel ch
Executing(c, ch) == pc[c] \in RunningPcs /\ chan[c] = ch

\* caller c makes a call in this step
Calls(c) == pc[c] = "idle" /\ pc'[c] # "idle"

\* the weak fairness of the event loop: a run that can take its next step
\* takes it
FairSpec == Spec /\ \A c \in Callers : WF_vars(RunStep(c))

\* C1: whatever the interleaving of the calls, at most one caller executes
\* runIngestionPipeline for a channel at any time, and a channel no caller
\* executes for can be acquired, whichever other channels are held.
C1_OneRunPerChannel ==
  \A ch \in Channels :
    /\ Cardinality({c \in Callers : Executing(c, ch)}) <= 1
    /\ (\A c \in Callers : ~Executing(c, ch)) =>
         markPipelineRunning(runningPipelines, ch).ret

C1_Witness ==
  /\ Executing("c1", "UCa")
  /\ Executing("c2", "UCb")
  /\ runningPipelines = {"UCa", "UCb"}

\* C2: a call acquires the lock exactly when its channel is not in the
\* running set, and then the channel is in the set; while a caller holds a
\* channel, isPipelineRunning is true for it and markPipelineRunning would
\* return false and leave the set alone.
C2_TryStart ==
  /\ [][\A c \in Callers :
          Calls(c) =>
            /\ (pc'[c] = "stage1") <=> (chan'[c] \notin runningPipelines)
            /\ pc'[c] = "stage1" =>
                 runningPipelines' = runningPipelines \cup {chan'[c]}
            /\ pc'[c] # "stage1" => runningPipelines' = runningPipelines]_vars
  /\ [](\A c \in Callers :
          pc[c] \in RunningPcs =>
            /\ isPipelineRunning(runningPipelines, chan[c])
            /\ markPipelineRunning(runningPipelines, chan[c]) =
                 [ret |-> FALSE, set |-> runningPipelines])

C2_Witness ==
  /\ pc["c1"] \in RunningPcs
  /\ pc["c2"] = "ret"
  /\ ret["c2"] \in {"null", "409"}
  /\ chan["c2"] = chan["c1"]

\* C3: a call that acquired the lock comes to its return with its channel
\* out of the running set, on the normal path and on the path through the
\* catch block; the step that returns is the one that removes the channel,
\* and after it a new markPipelineRunning for the channel returns true.
C3_Released ==
  /\ \A c \in Callers, ch \in Channels :
       Executing(c, ch) ~>
         (pc[c] = "ret" /\ ret[c] = "result" /\
          ~isPipelineRunning(runningPipelines, ch))
  /\ [][\A c \in Callers :
          (pc[c] \in RunningPcs /\ pc'[c] \notin RunningPcs) =>
            /\ pc'[c] = "ret"
            /\ chan[c] \in runningPipelines
            /\ ~isPipelineRunning(runningPipelines', chan[c])
            /\ markPipelineRunning(runningPipelines', chan[c]).ret]_vars

\* a run that went through the catch block has returned and released
C3_Witness ==
  /\ pc["c1"] = "ret"
  /\ ret["c1"] = "result"
  /\ Len(res["c1"].videoFetch.errors) = 2
  /\ ~isPipelineRunning(runningPipelines, chan["c1"])

\* C4: a call for a channel that is in the running set returns null (409
\* from the route), has invoked no collaborator and has not touched the
\* store, and leaves the running set as it was.
C4_Refusal ==
  /\ [][\A c \in Callers :
          (Calls(c) /\ chan'[c] \in runningPipelines) =>
            /\ pc'[c] = "ret"
            /\ ret'[c] \in {"null", "409"}
            /\ ~touched'[c]
            /\ res'[c] = EmptyResult
            /\ runningPipelines' = runningPipelines
            /\ dbVars' = dbVars]_vars
  /\ [](\A c \in Callers :
          ret[c] \in {"null", "409"} => pc[c] = "ret" /\ ~touched[c])

C4_Witness ==
  /\ ret["c1"] = "null"
  /\ Executing("c2", chan["c1"])
  /\ isPipelineRunning(runningPipelines, chan["c1"])

(***************************************************************************)
(* The flags of a video                                                    *)
(***************************************************************************)
\* C9: every video with predictionsExtracted = true has had every block of
\* the segmentation of its stored chunks handed to the extractor.
C9_AllBlocksOffered ==
  \A v \in peFlag :
    \A i \in 1..Len(segmentTranscript(chunks[v])) :
      segmentTranscript(chunks[v])[i].chunkIds \in offered[v]

\* C10: every video with transcriptFetched = true has a stored chunk or had
\* its fetch fail with a permanent error; the flag is set only together with
\* the chunks of a successful transaction, or by the catch block for a
\* permanent error.
C10_FetchedMeansChunksOrPermanent ==
  /\ [](\A v \in tfFlag : Len(chunks[v]) > 0 \/ v \in permFailed)
  /\ [][\A v \in Videos :
          (v \notin tfFlag /\ v \in tfFlag') =>
            \E c \in Callers :
              /\ cur[c] = v
              /\ \/ /\ pc[c] = "ft_tx"
                    /\ Len(ftEntries[c]) > 0
                    /\ chunks'[v] = ChunkData(v, ftEntries[c])
                 \/ /\ pc[c] = "ft_mark"
                    /\ isPermanentError(ftMsg[c])
                    /\ v \in permFailed]_vars

\* a permanent failure has marked a video that has no chunks
C10_Witness ==
  /\ "v1" \in tfFlag
  /\ Len(chunks["v1"]) = 0
  /\ "v1" \in permFailed

(***************************************************************************)
(* fetchTranscriptForVideo                                                 *)
(***************************************************************************)
\* the states of a caller inside fetchTranscriptForVideo
FetchPcs == {"ft_find", "ft_fetch", "ft_tx", "ft_mark"}

\* fetchTranscriptForVideo of caller c returns in this step
FetchReturns(c) == pc[c] \in FetchPcs /\ pc'[c] \notin FetchPcs

\* the step of caller c adds one entry with message msg for its video to
\* transcriptFetch.errors and changes no count
RecordsFetchError(c, msg) ==
  /\ res'[c].transcriptFetch.errors =
       Append(res[c].transcriptFetch.errors, <<cur[c], msg>>)
  /\ res'[c].transcriptFetch.videosProcessed =
       res[c].transcriptFetch.videosProcessed
  /\ res'[c].transcriptFetch.totalChunks = res[c].transcriptFetch.totalChunks

\* what C11 says of every failure: the call returns to the loop of stage 2
\* with the error as a value, and a failure that is not permanent (an empty
\* transcript, a transient error) leaves the flag as it was
FailureIsReturned(c) ==
  /\ FetchReturns(c) => pc'[c] = "s2loop"
  /\ (pc[c] = "ft_fetch" /\ pc'[c] = "s2loop") =>
       /\ tfFlag' = tfFlag
       /\ cur[c] \notin tfFlag'
       /\ \E msg \in TransientMsgs \cup
                     {"No transcript available for this video"} :
            RecordsFetchError(c, msg)
  /\ (pc[c] = "ft_fetch" /\ pc'[c] = "ft_mark") =>
       /\ ftMsg'[c] \in PermanentMsgs
       /\ tfFlag' = tfFlag
  /\ (pc[c] = "ft_mark" /\ pc'[c] # "ft_mark") =>
       RecordsFetchError(c, ftMsg[c])

\* C11 as stated: a permanent failure sets transcriptFetched, so that
\* getUnfetchedVideos leaves the video out; any other failure and an empty
\* transcript leave the flag unset; the failure is returned, not thrown.
C11_PermanentMarks ==
  [][\A c \in Callers :
       /\ FailureIsReturned(c)
       /\ (pc[c] = "ft_mark" /\ pc'[c] # "ft_mark") =>
            /\ cur[c] \in tfFlag'
            /\ cur[c] \notin
                 Range(Restrict(catalog[chan[c]], vids' \ tfFlag'))]_vars

\* C11: a permanent failure sets transcriptFetched, so that
\* getUnfetchedVideos leaves the video out, unless the update of the flag
\* fails in the store, which is ignored and leaves the flag unset; any
\* other failure and an empty transcript leave the flag unset; the failure
\* is returned, not thrown.
C11_FailureClasses ==
  [][\A c \in Callers :
       /\ FailureIsReturned(c)
       /\ (pc[c] = "ft_mark" /\ pc'[c] # "ft_mark") =>
            \/ /\ tfFlag' = tfFlag \cup {cur[c]}
               /\ cur[c] \notin
                    Range(Restrict(catalog[chan[c]], vids' \ tfFlag'))
            \/ /\ "db" \in faults
               /\ tfFlag' = tfFlag]_vars

\* a permanent failure was returned and the video is not marked, because
\* the update failed
C11_Witness ==
  /\ pc["c1"] = "s2loop"
  /\ res["c1"].transcriptFetch.errors =
       <<<<"v1", "Transcript is disabled on this video">>>>
  /\ "v1" \in permFailed
  /\ "v1" \notin tfFlag

\* C12: the transaction of fetchTranscriptForVideo either stores the new
\* chunks in place of the old ones together with transcriptFetched, or
\* fails and leaves the chunks and the flag of the video as they were; no
\* state shows chunks of a video whose flag is not set.
C12_ReplaceIsAtomic ==
  /\ [][\A c \in Callers :
          (pc[c] = "ft_tx" /\ pc'[c] # "ft_tx") =>
            \/ /\ chunks' = [chunks EXCEPT
                               ![cur[c]] = ChunkData(cur[c], ftEntries[c])]
               /\ tfFlag' = tfFlag \cup {cur[c]}
               /\ res'[c].transcriptFetch.videosProcessed =
                    res[c].transcriptFetch.videosProcessed + 1
               /\ res'[c].transcriptFetch.totalChunks =
                    res[c].transcriptFetch.totalChunks + Len(ftEntries[c])
            \/ /\ chunks' = chunks
               /\ tfFlag' = tfFlag
               /\ RecordsFetchError(c, TxErrorMsg)]_vars
  /\ [](\A v \in Videos : Len(chunks[v]) > 0 => v \in tfFlag)

\* a transaction has failed: nothing is stored and the flag is not set
C12_Witness ==
  /\ pc["c1"] = "s2loop"
  /\ res["c1"].transcriptFetch.errors = <<<<"v1", TxErrorMsg>>>>
  /\ Len(chunks["v1"]) = 0
  /\ "v1" \notin tfFlag

(***************************************************************************)
(* extractPredictionsForVideo                                              *)
(***************************************************************************)
\* extractPredictionsForVideo of caller c returns its statistics in this step
ExtractReturns(c) == pc[c] = "ex_mark" /\ pc'[c] = "s3loop"

\* the number of blocks of the video caller c is extracting from
BlockCount(c) == Len(segmentTranscript(chunks[cur[c]]))

\* C13: extractPredictionsForVideo returns only with predictionsExtracted set
\* for its video, whatever the blocks gave, and after every block of the
\* video was processed; while blocks are being processed the flag of the
\* video is not set, and the flag is set by no other step than the final
\* update and the update for a video without chunks.
C13_FlagAfterLastBlock ==
  /\ [][\A c \in Callers :
          /\ ExtractReturns(c) =>
               /\ cur[c] \in peFlag'
               /\ blks[c] = << >>
               /\ stats[c].block = BlockCount(c)
          /\ (pc[c] = "ex_mark" /\ pc'[c] # "ex_mark") =>
               pc'[c] \in {"s3loop", "finally"}
          /\ (pc[c] = "ex_mark" /\ pc'[c] = "finally") =>
               /\ "db" \in faults
               /\ peFlag' = peFlag]_vars
  /\ [][\A v \in Videos :
          (v \notin peFlag /\ v \in peFlag') =>
            \E c \in Callers :
              /\ cur[c] = v
              /\ pc[c] \in {"ex_mark", "s3_markempty"}]_vars
  /\ [](\A c \in Callers :
          pc[c] \in {"ex_block", "ex_mark"} => cur[c] \notin peFlag)

\* both blocks of a video gave an error and the video is marked
C13_Witness ==
  /\ pc["c1"] = "s3loop"
  /\ "v1" \in peFlag
  /\ res["c1"].predictionExtraction.errors = <<<<"Block", 0>>, <<"Block", 1>>>>
  /\ res["c1"].predictionExtraction.totalPredictions = 0
  /\ predRows = << >>

\* caller c processes one block of its video in this step
BlockStep(c) == pc[c] = "ex_block" /\ blks'[c] # blks[c]

\* the step of caller c is one on a block whose extraction returned an error
BlockErrored(c) ==
  /\ BlockStep(c)
  /\ Len(stats'[c].errors) > Len(stats[c].errors)
  /\ stats'[c].errors[Len(stats[c].errors) + 1] = <<"Block", stats[c].block>>

\* C14: a block whose extraction returns an error adds exactly one entry,
\* 'Block i', to the errors of the video, stores no prediction and counts
\* none, and the loop goes on with the blocks after it: every block of the
\* video has been offered to the extractor when the function returns.
\* Without an API key every block is such a block.
C14_BlockErrorContinues ==
  [][\A c \in Callers :
       /\ BlockErrored(c) =>
            /\ stats'[c].errors =
                 Append(stats[c].errors, <<"Block", stats[c].block>>)
            /\ predRows' = predRows
            /\ stats'[c].totalPredictions = stats[c].totalPredictions
            /\ stats'[c].blocksWithPredictions = stats[c].blocksWithPredictions
       /\ BlockStep(c) =>
            /\ ~env.gemini => BlockErrored(c)
            /\ blks[c] # << >>
            /\ blks'[c] = Tail(blks[c])
            /\ stats'[c].block = stats[c].block + 1
            /\ Head(blks[c]).chunkIds \in offered'[cur[c]]
            /\ pc'[c] = "ex_block"
       /\ ExtractReturns(c) =>
            \A i \in 1..BlockCount(c) :
              segmentTranscript(chunks[cur[c]])[i].chunkIds \in offered[cur[c]]]_vars

\* the first block gave an error and a prediction of the second is stored
C14_Witness ==
  /\ pc["c1"] = "ex_mark"
  /\ stats["c1"].errors = <<<<"Block", 0>>>>
  /\ stats["c1"].block = 2
  /\ stats["c1"].totalPredictions = 1
  /\ predRows # << >>
  /\ predRows[Len(predRows)].timestamp = 4

\* the entry a failed prisma.prediction.create leaves in the errors
StoreFailure == <<"Failed to store prediction", DbErrorMsg>>

\* C15: when creates of predictions fail, each failure is one 'Failed to
\* store prediction' entry in the errors of the video and every other
\* prediction of the block is stored: the rows stored before stay, the
\* stored and the failed predictions of the block add up to its
\* predictions, the loop goes on with the next block, and the function
\* still returns with predictionsExtracted set.
C15_StoreFailureIsolated ==
  [][\A c \in Callers :
       /\ (BlockStep(c) /\ ~BlockErrored(c)) =>
            LET n == stats'[c].totalPredictions - stats[c].totalPredictions
                before == Len(predRows)
                added == Len(predRows') - before
                failed == Len(stats'[c].errors) - Len(stats[c].errors)
            IN /\ added >= 0
               /\ failed >= 0
               /\ SubSeq(predRows', 1, before) = predRows
               /\ SubSeq(stats'[c].errors, 1, Len(stats[c].errors)) =
                    stats[c].errors
               /\ added + failed = n
               /\ \A k \in 1..failed :
                    stats'[c].errors[Len(stats[c].errors) + k] = StoreFailure
               /\ \A k \in 1..added :
                    /\ predRows'[before + k].videoId = cur[c]
                    /\ predRows'[before + k].timestamp = Head(blks[c]).startTime
                    /\ predRows'[before + k].item \in 1..n
                    /\ k > 1 => predRows'[before + k].item >
                                  predRows'[before + k - 1].item
               /\ failed > 0 => "db" \in faults
               /\ blks'[c] = Tail(blks[c])
               /\ pc'[c] = "ex_block"
       /\ ExtractReturns(c) =>
            /\ cur[c] \in peFlag'
            /\ res'[c].predictionExtraction.errors =
                 res[c].predictionExtraction.errors \o stats[c].errors]_vars

\* the first create of the first block failed, the second one and the one
\* of the second block are stored, and the video is marked
C15_Witness ==
  /\ pc["c1"] = "s3loop"
  /\ "v1" \in peFlag
  /\ res["c1"].predictionExtraction.errors = <<StoreFailure>>
  /\ res["c1"].predictionExtraction.totalPredictions = 3
  /\ Len(predRows) = 2
  /\ predRows[1].item = 2 /\ predRows[1].timestamp = 0
  /\ predRows[2].item = 1 /\ predRows[2].timestamp = 4

\* C16: the blocks of a video are processed one at a time in index order:
\* the step at index i offers block i of the segmentation to the extractor,
\* stores only predictions of block i, and leaves exactly the blocks after i
\* to be processed; the start times of the blocks do not decrease with the
\* index, so the rows of one call are stored in transcript order.
C16_BlocksInOrder ==
  /\ [][\A c \in Callers :
          BlockStep(c) =>
            LET allBlocks == segmentTranscript(chunks[cur[c]])
                i == stats[c].block + 1
            IN /\ i \in 1..Len(allBlocks)
               /\ blks[c] = SubSeq(allBlocks, i, Len(allBlocks))
               /\ blks'[c] = SubSeq(allBlocks, i + 1, Len(allBlocks))
               /\ stats'[c].block = i
               /\ offered'[cur[c]] = offered[cur[c]] \cup {allBlocks[i].chunkIds}
               /\ \A k \in (Len(predRows) + 1)..Len(predRows') :
                    /\ predRows'[k].timestamp = allBlocks[i].startTime
                    /\ predRows'[k].transcriptChunkId = allBlocks[i].chunkIds[1]
               /\ \A j \in 1..(i - 1) : allBlocks[j].startTime <= allBlocks[i].startTime]_vars
  /\ [](\A c \in Callers :
          pc[c] = "ex_block" =>
            blks[c] = SubSeq(segmentTranscript(chunks[cur[c]]),
                             stats[c].block + 1,
                             Len(segmentTranscript(chunks[cur[c]]))))

\* both blocks of a video gave a prediction: the rows are in block order
C16_Witness ==
  /\ pc["c1"] = "ex_mark"
  /\ stats["c1"].block = 2
  /\ stats["c1"].blocksWithPredictions = 2
  /\ Len(predRows) = 2
  /\ predRows[1].timestamp = 0
  /\ predRows[2].timestamp = 4

(***************************************************************************)
(* The stages of runIngestionPipeline                                      *)
(***************************************************************************)
\* caller c leaves the state p in this step
Leaves(c, p) == pc[c] = p /\ pc'[c] # p

\* C17: stage 1 never ends the run: whether fetchVideosForChannel throws or
\* returns errors, videoFetch.success is false exactly when there is an
\* error, the error is in videoFetch.errors, and the run goes on to the
\* creator lookup; with an existing creator the run goes on to stage 2,
\* which lists the unfetched videos already stored, and to stage 3, unless
\* a storage call of these steps fails itself.
C17_Stage1FailureGoesOn ==
  [][\A c \in Callers :
       /\ Leaves(c, "stage1") =>
            /\ pc'[c] = "creator"
            /\ res'[c].videoFetch.success = (res'[c].videoFetch.errors = << >>)
            /\ (~opts[c].skipVideoFetch /\ ~env.youtube) =>
                 res'[c].videoFetch.errors # << >>
            /\ res'[c].transcriptFetch = res[c].transcriptFetch
            /\ res'[c].predictionExtraction = res[c].predictionExtraction
       /\ (Leaves(c, "creator") /\ chan[c] \in creators) =>
            \/ pc'[c] = "stage2" /\ res'[c].videoFetch = res[c].videoFetch
            \/ pc'[c] = "finally" /\ "db" \in faults
       /\ (Leaves(c, "stage2") /\ ~opts[c].skipTranscriptFetch) =>
            \/ /\ pc'[c] = "s2loop"
               /\ todo'[c] = Restrict(catalog[chan[c]], vids \ tfFlag)
            \/ pc'[c] = "finally" /\ "db" \in faults
       /\ (Leaves(c, "stage3") /\ ~opts[c].skipPredictionExtraction) =>
            \/ /\ pc'[c] = "s3loop"
               /\ todo'[c] = Restrict(catalog[chan[c]],
                                      (vids \cap tfFlag) \ peFlag)
            \/ pc'[c] = "finally" /\ "db" \in faults]_vars

\* stage 1 threw, and the video stored by an earlier run went through
\* stage 2 and stage 3
C17_Witness ==
  /\ pc["c1"] = "ret"
  /\ ret["c1"] = "result"
  /\ ~res["c1"].videoFetch.success
  /\ res["c1"].videoFetch.errors = <<"Channel not found">>
  /\ res["c1"].transcriptFetch.success
  /\ res["c1"].transcriptFetch.videosProcessed = 1
  /\ res["c1"].predictionExtraction.success
  /\ res["c1"].predictionExtraction.videosProcessed = 1

\* the videos that have an entry in the errors of stage 2
FailedVideos(c) ==
  {res[c].transcriptFetch.errors[k][1] :
     k \in 1..Len(res[c].transcriptFetch.errors)}

\* C18: a failed fetch of one video adds one entry to transcriptFetch.errors
\* and the loop of stage 2 goes on with the next video: every return of
\* fetchTranscriptForVideo either counts the video as processed or adds one
\* error entry for it, and leaves the rest of the list as it is; the loop
\* takes the videos of the list one after the other and sets
\* transcriptFetch.success when the list is empty. During the loop every
\* video still unfetched is waiting in the list, is being fetched, or has
\* its one entry in the errors.
C18_FetchFailureContinues ==
  /\ [][\A c \in Callers :
          /\ FetchReturns(c) =>
               /\ pc'[c] = "s2loop"
               /\ todo'[c] = todo[c]
               /\ \/ /\ res'[c].transcriptFetch.videosProcessed =
                          res[c].transcriptFetch.videosProcessed + 1
                     /\ res'[c].transcriptFetch.errors =
                          res[c].transcriptFetch.errors
                  \/ /\ res'[c].transcriptFetch.videosProcessed =
                          res[c].transcriptFetch.videosProcessed
                     /\ Len(res'[c].transcriptFetch.errors) =
                          Len(res[c].transcriptFetch.errors) + 1
                     /\ FailedVideos(c)' = FailedVideos(c) \cup {cur[c]}
               /\ ~res'[c].transcriptFetch.success
          /\ Leaves(c, "s2loop") =>
               IF todo[c] = << >>
               THEN /\ pc'[c] = "stage3"
                    /\ res'[c].transcriptFetch.success
                    /\ res'[c].transcriptFetch.errors =
                         res[c].transcriptFetch.errors
               ELSE /\ pc'[c] = "ft_find"
                    /\ cur'[c] = Head(todo[c])
                    /\ todo'[c] = Tail(todo[c])]_vars
  /\ [](\A c \in Callers :
          pc[c] \in {"s2loop"} \cup FetchPcs =>
            /\ \A v \in (vids \cap Range(catalog[chan[c]])) \ tfFlag :
                 \/ v \in Range(todo[c])
                 \/ v = cur[c] /\ pc[c] \in FetchPcs
                 \/ v \in FailedVideos(c)
            /\ Cardinality(FailedVideos(c)) =
                 Len(res[c].transcriptFetch.errors))

\* the fetch of the first video failed, the second video was fetched
\* after it, and stage 2 ended with success
C18_Witness ==
  /\ pc["c1"] = "stage3"
  /\ res["c1"].transcriptFetch.errors = <<<<"v1", "network timeout">>>>
  /\ res["c1"].transcriptFetch.videosProcessed = 1
  /\ res["c1"].transcriptFetch.success
  /\ "v2" \in tfFlag
  /\ "v1" \notin tfFlag

\* the states of a caller at a storage call of the loop of stage 3:
\* getTranscriptChunks, the update for a video without chunks, and the
\* final update of extractPredictionsForVideo
Stage3StoragePcs == {"s3_chunks", "s3_markempty", "ex_mark"}

\* C19: a storage call that fails while stage 3 processes one video is
\* recorded as an error and the loop goes on with the remaining videos: no
\* step at a storage call of the loop takes the run out of the loop to the
\* catch block of the pipeline.
C19_StorageFailureContinues ==
  [][\A c \in Callers :
       (pc[c] \in Stage3StoragePcs /\ pc'[c] # pc[c]) =>
         /\ pc'[c] \in {"s3loop", "s3_markempty", "ex_block"}
         /\ todo'[c] = todo[c]]_vars

\* the message of the throw for a missing creator
CreatorNotFound == "Creator not found for channel"

\* C20: when the creator lookup finds no creator, the run goes to the catch
\* block without a transcript fetch or an extraction: the store is left as
\* it is, transcriptFetch.success and predictionExtraction.success stay
\* false with nothing processed, and 'Creator not found' is the new entry of
\* videoFetch.errors when stage 1 had failed and of transcriptFetch.errors
\* otherwise (when the lookup itself fails, its message is the entry).
C20_NoCreatorStops ==
  /\ [][\A c \in Callers :
          (Leaves(c, "creator") /\ chan[c] \notin creators) =>
            /\ pc'[c] = "finally"
            /\ dbVars' = dbVars
            /\ res'[c].creatorId = ""
            /\ ~res'[c].transcriptFetch.success
            /\ ~res'[c].predictionExtraction.success
            /\ \E msg \in {CreatorNotFound} \cup
                          (IF "db" \in faults THEN {DbErrorMsg} ELSE {}) :
                 IF res[c].videoFetch.success
                 THEN /\ res'[c].transcriptFetch.errors = <<msg>>
                      /\ res'[c].videoFetch = res[c].videoFetch
                 ELSE /\ res'[c].videoFetch.errors =
                           Append(res[c].videoFetch.errors, msg)
                      /\ res'[c].transcriptFetch = res[c].transcriptFetch
            /\ res'[c].predictionExtraction = res[c].predictionExtraction]_vars
  /\ [](\A c \in Callers :
          (pc[c] \in {"finally", "ret"} /\ ret[c] \in {"none", "result"} /\
           res[c].creatorId = "") =>
            /\ ~res[c].transcriptFetch.success
            /\ ~res[c].predictionExtraction.success
            /\ res[c].transcriptFetch.videosProcessed = 0
            /\ res[c].transcriptFetch.totalChunks = 0
            /\ res[c].predictionExtraction.videosProcessed = 0
            /\ res[c].predictionExtraction.totalPredictions = 0
            /\ res[c].predictionExtraction.errors = << >>)

\* a run that skipped stage 1 found no creator and has returned
C20_Witness ==
  /\ pc["c1"] = "ret"
  /\ ret["c1"] = "result"
  /\ res["c1"].creatorId = ""
  /\ res["c1"].videoFetch.success
  /\ res["c1"].transcriptFetch.errors = <<CreatorNotFound>>
  /\ ~res["c1"].transcriptFetch.success
  /\ ~res["c1"].predictionExtraction.success
  /\ vids = {}

(***************************************************************************)
(* The result of runIngestionPipeline                                      *)
(***************************************************************************)
\* the run of caller c ended on the throw for a missing creator
MissingCreator(c) ==
  /\ res[c].creatorId = ""
  /\ \/ CreatorNotFound \in Range(res[c].videoFetch.errors)
     \/ CreatorNotFound \in Range(res[c].transcriptFetch.errors)

\* C21: a run that found no creator does not come back to its caller as a
\* normally returned result; every other run does.
C21_MissingCreatorSurfaces ==
  \A c \in Callers :
    (pc[c] = "ret" /\ MissingCreator(c)) => ret[c] # "result"

\* an exception takes the run of caller c to the catch block in this step
ExceptionStep(c) ==
  /\ pc[c] \in RunningPcs
  /\ pc[c] # "finally"
  /\ pc'[c] = "finally"
  /\ ~res'[c].predictionExtraction.success

\* the stage whose code caller c is executing
StageInProgress(c) ==
  IF pc[c] = "stage1" THEN "videoFetch"
  ELSE IF pc[c] \in {"creator", "stage2", "s2loop"} \cup FetchPcs
       THEN "transcriptFetch"
       ELSE "predictionExtraction"

\* the first stage, in the order of the run, that has not reported success
FirstUnsuccessful(r) ==
  IF ~r.videoFetch.success THEN "videoFetch"
  ELSE IF ~r.transcriptFetch.success THEN "transcriptFetch"
       ELSE "predictionExtraction"

\* the step of caller c appends one message to the errors of stage st and
\* changes nothing else of the result
AppendsTo(c, st) ==
  /\ \E msg \in {CreatorNotFound, DbErrorMsg} :
       res'[c][st].errors = Append(res[c][st].errors, msg)
  /\ \A f \in DOMAIN res[c] : f # st => res'[c][f] = res[c][f]
  /\ \A f \in DOMAIN res[c][st] : f # "errors" => res'[c][st][f] = res[c][st][f]

\* C22 as it is stated: the message of an exception raised after the creator
\* lookup goes to the errors of the stage in progress.
C22_BlamesStageInProgress ==
  [][\A c \in Callers :
       (ExceptionStep(c) /\ pc[c] \notin {"stage1", "creator"}) =>
         AppendsTo(c, StageInProgress(c))]_vars

\* C22: the message of an exception that reaches the catch block is
\* appended to the errors of the first stage that has not reported success,
\* which is the stage in progress only if every earlier stage succeeded;
\* nothing else of the result changes, and the result with its counts is
\* what the run returns.
C22_BlamesFirstUnsuccessful ==
  [][\A c \in Callers :
       /\ ExceptionStep(c) =>
            /\ AppendsTo(c, FirstUnsuccessful(res[c]))
            /\ (res[c].videoFetch.success /\
                (pc[c] \in Stage3StoragePcs \cup {"stage3"} =>
                   res[c].transcriptFetch.success)) =>
                 FirstUnsuccessful(res[c]) = StageInProgress(c)
       /\ Leaves(c, "finally") =>
            /\ pc'[c] = "ret"
            /\ ret'[c] = "result"
            /\ res'[c] = res[c]]_vars

\* stage 1 failed, stage 2 fetched one transcript, and the exception of
\* stage 3 is in the errors of stage 1 of the returned result
C22_Witness ==
  /\ pc["c1"] = "ret"
  /\ ret["c1"] = "result"
  /\ res["c1"].videoFetch.errors = <<"Channel not found", DbErrorMsg>>
  /\ res["c1"].transcriptFetch.success
  /\ res["c1"].transcriptFetch.videosProcessed = 1
  /\ ~res["c1"].predictionExtraction.success
  /\ res["c1"].predictionExtraction.errors = << >>

(***************************************************************************)
(* Videos without chunks, and completed work                               *)
(***************************************************************************)
\* C23: stage 3 gives a video without stored chunks predictionsExtracted =
\* true at once: no block is made of it, nothing is offered to the
\* extractor, no row is stored, the video is not counted in
\* videosProcessed, and the loop goes on; the only other way out of these
\* steps is an exception of the storage call. A set flag stays set, so the
\* video is not in the list of stage 3 again.
C23_NoChunksMarked ==
  /\ [][\A c \in Callers :
          /\ (Leaves(c, "s3_chunks") /\ Len(chunks[cur[c]]) = 0) =>
               \/ /\ pc'[c] = "s3_markempty"
                  /\ blks'[c] = << >>
                  /\ res'[c] = res[c]
                  /\ dbVars' = dbVars
               \/ ExceptionStep(c) /\ "db" \in faults
          /\ Leaves(c, "s3_markempty") =>
               \/ /\ pc'[c] = "s3loop"
                  /\ peFlag' = peFlag \cup {cur[c]}
                  /\ Len(chunks[cur[c]]) = 0
                  /\ res'[c] = res[c]
                  /\ offered' = offered
                  /\ predRows' = predRows
                  /\ cur[c] \notin
                       Range(Restrict(catalog[chan[c]],
                                      (vids' \cap tfFlag') \ peFlag'))
               \/ /\ ExceptionStep(c)
                  /\ "db" \in faults
                  /\ peFlag' = peFlag]_vars
  /\ [][peFlag \subseteq peFlag']_vars

\* a video whose transcript is disabled has been marked by stage 3 without
\* being offered to the extractor or counted
C23_Witness ==
  /\ pc["c1"] = "s3loop"
  /\ "v1" \in peFlag
  /\ "v1" \in tfFlag
  /\ Len(chunks["v1"]) = 0
  /\ offered["v1"] = {}
  /\ res["c1"].predictionExtraction.videosProcessed = 0

\* every stored video of channel ch has both flags set
Completed(ch) ==
  (vids \cap Range(catalog[ch])) \subseteq (tfFlag \cap peFlag)

\* the states of a caller inside the work on one video
WorkPcs == FetchPcs \cup {"s3_chunks", "s3_markempty", "ex_block", "ex_mark"}

\* C24: while every stored video of the channel has transcriptFetched and
\* predictionsExtracted set, a run for the channel is at no step of the
\* work on a video, and a step that discovers no new video changes neither
\* the chunks, nor the predictions, nor what was offered to the extractor,
\* nor a flag; the lists of stage 2 and stage 3 are empty.
C24_CompletedWorkUntouched ==
  /\ [](\A c \in Callers :
          (pc[c] \in RunningPcs /\ Completed(chan[c])) =>
            /\ pc[c] \notin WorkPcs
            /\ pc[c] \in {"s2loop", "s3loop"} => todo[c] = << >>)
  /\ [][\A c \in Callers :
          (pc[c] \in RunningPcs /\ pc'[c] # pc[c] /\ Completed(chan[c]) /\
           vids' = vids) =>
            /\ chunks' = chunks
            /\ predRows' = predRows
            /\ offered' = offered
            /\ tfFlag' = tfFlag
            /\ peFlag' = peFlag
            /\ res'[c].transcriptFetch.videosProcessed =
                 res[c].transcriptFetch.videosProcessed
            /\ res'[c].predictionExtraction.videosProcessed =
                 res[c].predictionExtraction.videosProcessed]_vars

\* a full run over a channel whose two videos were completed before has
\* returned: it found nothing to do
C24_Witness ==
  /\ pc["c1"] = "ret"
  /\ ret["c1"] = "result"
  /\ opts["c1"] = NoOptions
  /\ vids = {"v1", "v2"}
  /\ Completed("UCa")
  /\ res["c1"].videoFetch.success
  /\ res["c1"].videoFetch.videosInserted = 0
  /\ res["c1"].transcriptFetch.success
  /\ res["c1"].transcriptFetch.videosProcessed = 0
  /\ res["c1"].predictionExtraction.success
  /\ res["c1"].predictionExtraction.videosProcessed = 0

(***************************************************************************)
(* Missing credentials                                                     *)
(***************************************************************************)
\* C25: without the model credential a run that handed blocks of a video
\* to the extractor reports the prediction-extraction stage as failed, and
\* without the discovery credential a run that did not skip stage 1 reports
\* videoFetch as failed.
C25_MissingKeyFailsStage ==
  \A c \in Callers :
    (pc[c] = "ret" /\ ret[c] = "result") =>
      /\ (~env.gemini /\ res[c].predictionExtraction.videosProcessed > 0) =>
           ~res[c].predictionExtraction.success
      /\ (~env.youtube /\ ~opts[c].skipVideoFetch) =>
           ~res[c].videoFetch.success

(***************************************************************************)
(* The segmenter                                                           *)
(***************************************************************************)
\* the ids of the chunks that have text, in input order
NonEmptyIds(input) ==
  LET withText == SelectSeq(input, LAMBDA ch : ch.words > 0)
  IN [i \in 1..Len(withText) |-> withText[i].id]

\* the chunkIds of the blocks one after the other
RECURSIVE ConcatIds(_)
ConcatIds(blocks) ==
  IF blocks = << >> THEN << >>
  ELSE Head(blocks).chunkIds \o ConcatIds(Tail(blocks))

\* the chunk of the input with the given id
ChunkById(input, id) ==
  input[CHOOSE i \in 1..Len(input) : input[i].id = id]

\* the words of the texts of the chunks a block lists
RECURSIVE WordsOfIds(_, _)
WordsOfIds(input, ids) ==
  IF ids = << >> THEN 0
  ELSE ChunkById(input, Head(ids)).words + WordsOfIds(input, Tail(ids))

\* C26: the chunkIds of the blocks of segmentTranscript, one after the
\* other, are the ids of the chunks with text in input order, so that every
\* such chunk is in exactly one block and only chunks without text are
\* dropped; the text of a block is the join of the texts of its chunks: it
\* has their words, and no block is empty.
C26_ContentPreserved ==
  seg.pc = "semantic" =>
    /\ ConcatIds(seg.blocks) = NonEmptyIds(seg.chunks)
    /\ \A b \in 1..Len(seg.blocks) :
         /\ seg.blocks[b].chunkIds # << >>
         /\ seg.blocks[b].words = WordsOfIds(seg.chunks, seg.blocks[b].chunkIds)
         /\ seg.blocks[b].words > 0

\* an input with chunks without text at its start, inside and at its end,
\* cut into two blocks
C26_Witness ==
  /\ seg.pc = "semantic"
  /\ Len(seg.chunks) = 6
  /\ seg.chunks[1].words = 0
  /\ seg.chunks[4].words = 0
  /\ seg.chunks[6].words = 0
  /\ Len(seg.blocks) = 2
  /\ Len(ConcatIds(seg.blocks)) = 3

\* C27: every block of segmentTranscript but the last one has at least 30
\* words.
C27_MinWords ==
  seg.pc = "semantic" =>
    \A b \in 1..(Len(seg.blocks) - 1) : seg.blocks[b].words >= 30

\* a sentence end after ten words did not close the first block, and the
\* last block is a short one
C27_Witness ==
  /\ seg.pc = "semantic"
  /\ Len(seg.blocks) = 2
  /\ seg.chunks[1].words = 10
  /\ seg.chunks[1].ends
  /\ Len(seg.blocks[1].chunkIds) > 1
  /\ seg.blocks[2].words = 10

\* the trimmed text of a block ends in '.', '!' or '?': its last chunk does
BlockEnds(input, block) ==
  ChunkById(input, block.chunkIds[Len(block.chunkIds)]).ends

C29_StartTimeOfFirstChunk ==
  seg.pc = "semantic" =>
    \A b \in 1..Len(seg.blocks) :
      seg.blocks[b].startTime =
        ChunkById(seg.chunks, seg.blocks[b].chunkIds[1]).startTime

\* ceil(n / k)
CeilDiv(n, k) == (n + k - 1) \div k

\* the ids of the i-th slice of k consecutive chunks of the input, i from 0
SliceIds(input, k, i) ==
  [j \in 1..(Min(i * k + k, Len(input)) - i * k) |-> input[i * k + j].id]

\* the slices of the input that have some text, by index
TextSlices(input, k) ==
  {i \in 0..(CeilDiv(Len(input), k) - 1) :
     \E j \in (i * k + 1)..Min(i * k + k, Len(input)) : input[j].words > 0}

\* C30 as it is stated: segmentByChunkCount on n chunks returns ceil(n/k)
\* blocks, the i-th holding the ids of the chunks i*k .. i*k+k-1, and only
\* the last block may hold fewer than k ids.
C30_CeilBlocks ==
  seg.pc = "count" =>
    /\ Len(seg.blocks) = CeilDiv(Len(seg.chunks), seg.k)
    /\ \A b \in 1..Len(seg.blocks) :
         seg.blocks[b].chunkIds = SliceIds(seg.chunks, seg.k, b - 1)
    /\ \A b \in 1..(Len(seg.blocks) - 1) :
         Len(seg.blocks[b].chunkIds) = seg.k

\* C30: segmentByChunkCount cuts the n chunks into ceil(n/k) slices of k
\* consecutive chunks, the last one possibly shorter, and returns one block
\* for every slice that has some text, in order, holding all the ids of the
\* slice; slices whose chunks are all without text give no block, so that
\* the blocks are ceil(n/k) exactly when every slice has text.
C30_BlockPerTextSlice ==
  seg.pc = "count" =>
    LET slices == TextSlices(seg.chunks, seg.k)
        last == CeilDiv(Len(seg.chunks), seg.k) - 1
    IN /\ Len(seg.blocks) = Cardinality(slices)
       /\ Len(seg.blocks) <= last + 1
       /\ \A b \in 1..Len(seg.blocks) :
            \E i \in slices :
              /\ Cardinality({i2 \in slices : i2 < i}) = b - 1
              /\ seg.blocks[b].chunkIds = SliceIds(seg.chunks, seg.k, i)
              /\ seg.blocks[b].startTime = seg.chunks[i * seg.k + 1].startTime
              /\ Len(seg.blocks[b].chunkIds) = seg.k \/ i = last
       /\ slices = 0..last => Len(seg.blocks) = last + 1

\* five chunks cut by two: the middle slice has no text and gives no block,
\* the last block holds one id
C30_Witness ==
  /\ seg.pc = "count"
  /\ seg.k = 2
  /\ Len(seg.chunks) = 5
  /\ TextSlices(seg.chunks, seg.k) = {0, 2}
  /\ Len(seg.blocks) = 2
  /\ Len(seg.blocks[1].chunkIds) = 2
  /\ Len(seg.blocks[2].chunkIds) = 1

(***************************************************************************)
(* segmentWithOverlap                                                      *)
(***************************************************************************)
\* the position in the input of the first chunk of a block
FirstPos(block) == block.chunkIds[1][2]

\* the ids two blocks have in common
SharedIds(b1, b2) == Range(b1.chunkIds) \cap Range(b2.chunkIds)

\* the last overlap ids of the earlier block are the first of the later one
OverlapsBy(b1, b2, overlap) ==
  /\ Cardinality(SharedIds(b1, b2)) = overlap
  /\ Len(b1.chunkIds) >= overlap
  /\ Len(b2.chunkIds) >= overlap
  /\ \A j \in 1..overlap :
       b1.chunkIds[Len(b1.chunkIds) - overlap + j] = b2.chunkIds[j]

HasClaim(p) ==
  /\ "claim" \in DOMAIN p
  /\ p.claim = JNum \/ (IsStr(p.claim) /\ p.claim.word # "")

\* the member of the set a field value spells when it is lower-cased and
\* trimmed, or else the default
MemberOr(value, members, default) ==
  IF IsStr(value) /\ value.word \in members THEN Plain(value.word)
  ELSE Plain(default)

\* C32: every prediction parseJsonResponse returns has confidence in {low,
\* medium, high} and predictionType in {price, direction, relative
\* performance, macro}: the lower-cased, trimmed value of the element when
\* that is a member, else 'medium' respectively 'direction'; a missing asset
\* and a horizonMonths that is not a number become null.
C32_FieldsNormalized ==
  (parse.pc = "done" /\ parse.result.ok) =>
    LET kept == SelectSeq(parse.reply.elems, HasClaim)
        out == parse.result.predictions
        levels == {"low", "medium", "high"}
        types == {"price", "direction", "relative performance", "macro"}
    IN /\ Len(out) = Len(kept)
       /\ \A i \in 1..Len(out) :
            /\ out[i].confidence \in {Plain(w) : w \in levels}
            /\ out[i].predictionType \in {Plain(w) : w \in types}
            /\ out[i].confidence
                 = MemberOr(Field(kept[i], "confidence"), levels, "medium")
            /\ out[i].predictionType
                 = MemberOr(Field(kept[i], "predictionType"), types,
                            "direction")
            /\ Field(kept[i], "asset") = Missing => out[i].asset = JNull
            /\ Field(kept[i], "horizonMonths") # JNum
                 => out[i].horizonMonths = JNull

C32_Witness ==
  /\ parse.pc = "done"
  /\ parse.result.ok
  /\ Len(parse.reply.elems) = 2
  /\ Len(parse.result.predictions) = 2
  /\ Field(parse.reply.elems[1], "confidence") = Str("high", TRUE, TRUE)
  /\ parse.result.predictions[1].confidence = Plain("high")
  /\ Field(parse.reply.elems[1], "horizonMonths") = Plain("6")
  /\ parse.result.predictions[1].horizonMonths = JNull
  /\ parse.result.predictions[1].asset = JNull
  /\ Field(parse.reply.elems[2], "confidence") = Plain("certain")
  /\ parse.result.predictions[2].confidence = Plain("medium")
  /\ Field(parse.reply.elems[2], "predictionType") = Missing
  /\ parse.result.predictions[2].predictionType = Plain("direction")

\* C34: a response whose bracketed span parses as a JSON array raises no
\* error whatever its elements are; the elements with a claim are returned
\* and the others are dropped.
C34_PermissivePerElement ==
  (parse.pc = "done" /\ parse.reply.span = "valid") =>
    /\ parse.result.ok
    /\ parse.result.error = Undefined
    /\ Len(parse.result.predictions)
         = Len(SelectSeq(parse.reply.elems, HasClaim))

(***************************************************************************)
(* checkRateLimit                                                          *)
(***************************************************************************)
\* the calls for a key that were allowed in the last windowMs
AllowedInSpan(key) ==
  Len(SelectSeq(limiter.log[key],
                LAMBDA t : t > clock - INGEST_RATE_LIMIT.windowMs))

\* the calls for a key that were allowed since its window opened
AllowedInWindow(key) ==
  Len(SelectSeq(limiter.log[key],
                LAMBDA t : t >= limiter.store[key].resetAt
                                  - INGEST_RATE_LIMIT.windowMs))

\* a call for the key is answered allowed = false in this step
Denied(key) ==
  /\ limiter'.result[key] # limiter.result[key]
  /\ ~limiter'.result[key].allowed

\* C35 as it is stated: with the ingest configuration at most 5 calls for a
\* key are allowed in any span of 60000 ms, and a denied call leaves the
\* counter and the reset time of the key unchanged.
C35_FivePerMinute ==
  /\ [](\A key \in RateLimitKeys : AllowedInSpan(key) <= 5)
  /\ [][\A key \in RateLimitKeys :
          Denied(key) => limiter'.store[key] = limiter.store[key]]_vars

\* C35, amended: at most 5 calls for a key are allowed in one window, from
\* the call that opens it to its reset time 60000 ms later, the counter of
\* the key being the number of these calls; a span of 60000 ms that lies
\* across two windows has up to 10 allowed calls; a denied call leaves the
\* counter and the reset time of the key unchanged.
C35_FivePerWindow ==
  /\ [](\A key \in RateLimitKeys :
          /\ limiter.store[key].count <= 5
          /\ clock < limiter.store[key].resetAt =>
               AllowedInWindow(key) = limiter.store[key].count
          /\ AllowedInSpan(key) <= 10)
  /\ [][\A key \in RateLimitKeys :
          Denied(key) => limiter'.store[key] = limiter.store[key]]_vars

\* five calls allowed in the window, the next one denied
C35_Witness ==
  /\ ~limiter.result["ingest:a"].allowed
  /\ limiter.store["ingest:a"].count = 5
  /\ clock < limiter.store["ingest:a"].resetAt
  /\ AllowedInWindow("ingest:a") = 5
  /\ limiter.result["ingest:a"].resetAt = limiter.store["ingest:a"].resetAt

(***************************************************************************)
(* segmentTranscript and the limit of words                                *)
(***************************************************************************)
\* the ids of a block without the last one
AllButLast(ids) == SubSeq(ids, 1, Len(ids) - 1)

\* C36: a running block is closed at the first chunk that brings its words
\* to 120 or more: in every block the chunks before the last one have fewer
\* than 120 words together, and a chunk of 120 words or more is the last
\* chunk of its block.
C36_ClosedAtMaxWords ==
  seg.pc = "semantic" =>
    /\ \A b \in 1..Len(seg.blocks) :
         WordsOfIds(seg.chunks, AllButLast(seg.blocks[b].chunkIds)) < 120
    /\ \A j \in 1..Len(seg.chunks) :
         seg.chunks[j].words >= 120 =>
           \E b \in 1..Len(seg.blocks) :
             seg.blocks[b].chunkIds[Len(seg.blocks[b].chunkIds)]
               = seg.chunks[j].id

\* four chunks of 30 words are closed at the fourth, and a chunk of 120
\* words is a block by itself
C36_Witness ==
  /\ seg.pc = "semantic"
  /\ Len(seg.chunks) = 6
  /\ Len(seg.blocks) = 3
  /\ Len(seg.blocks[1].chunkIds) = 4
  /\ seg.blocks[1].words = 120
  /\ Len(seg.blocks[2].chunkIds) = 1
  /\ seg.blocks[2].words = 120

(***************************************************************************)
(* Termination of the segmenters that cut by position                      *)
(***************************************************************************)
\* C37: for every chunksPerBlock >= 1 and overlapChunks >= 0 the start of
\* the window of segmentWithOverlap is further on after every iteration that
\* goes on to another one, so that the loop ends.
C37_WindowAdvances ==
  [][(seg.pc = "overlap" /\ seg'.pc = "overlap" /\ seg' # seg)
       => seg'.i > seg.i]_vars

(***************************************************************************)
(* The rows extractPredictionsForVideo creates                             *)
(***************************************************************************)
\* C38: every block handed to extractPredictionsForVideo has text and at
\* least one chunk id; every Prediction row created for a block has the
\* video of the call as videoId and the first chunk id of the block as
\* transcriptChunkId, and that id is the id of a chunk the video has when
\* the row is created.
C38_RowsLinkFirstChunk ==
  /\ [](\A c \in active : \A b \in 1..Len(blks[c]) :
          blks[c][b].words > 0 /\ Len(blks[c][b].chunkIds) >= 1)
  /\ [][\A c \in active :
          (pc[c] = "ex_block" /\ blks'[c] # blks[c]) =>
            \A j \in (Len(predRows) + 1)..Len(predRows') :
              /\ predRows'[j].videoId = cur[c]
              /\ predRows'[j].transcriptChunkId = Head(blks[c]).chunkIds[1]
              /\ \E k \in 1..Len(chunks[cur[c]]) :
                   /\ chunks[cur[c]][k].id = predRows'[j].transcriptChunkId
                   /\ chunks[cur[c]][k].videoId = cur[c]]_vars

\* a row of the second block of a video, linked to its third chunk
C38_Witness ==
  \E j \in 1..Len(predRows) :
    /\ predRows[j].videoId = "v1"
    /\ predRows[j].transcriptChunkId = <<"v1", 3>>
    /\ Len(chunks["v1"]) = 3
    /\ chunks["v1"][3].id = <<"v1", 3>>

\* C39: over the runs for a source, also when a storage call of stage 3 or
\* the update of predictionsExtracted fails, the blocks of a video are
\* offered in one run only, so no prediction of a block is stored twice.
C39_NoBlockStoredTwice ==
  \A i, j \in 1..Len(predRows) : predRows[i] = predRows[j] => i = j

\* C40: the totalPredictions of extractPredictionsForVideo grows with every
\* block by the number of Prediction rows created for it, also when some of
\* the inserts fail, so that the total reported is the number of rows
\* created.
C40_TotalCountsRows ==
  [][\A c \in active :
       (pc[c] = "ex_block" /\ blks'[c] # blks[c]) =>
         stats'[c].totalPredictions - stats[c].totalPredictions
           = Len(predRows') - Len(predRows)]_vars

(***************************************************************************)
(* Extractor with the clock: extractPredictionsFromBlock step by step.     *)
(***************************************************************************)
\* enforceRateLimit without its sleep
RateLimitWait_None(t, last) == 0

\* the time enforceRateLimit sleeps when entered at time t
RateLimitWait(t, last) ==
  IF t - last < MIN_REQUEST_INTERVAL_MS
  THEN MIN_REQUEST_INTERVAL_MS - (t - last)
  ELSE 0

\* lastRequestTime = Date.now() and, one microtask later,
\* model.generateContent(prompt)
Invoke ==
  /\ lastRequestTime' = clock
  /\ hist' = [n |-> Min(hist.n + 1, 2),
              gap |-> IF hist.n = 0 THEN 0
                      ELSE Min(clock - lastRequestTime, MIN_REQUEST_INTERVAL_MS)]

\* StartAttempt with the loop test attempt <= retries
StartAttempt_OneMore(c, e, a) ==
  IF a > e.retries
  THEN /\ ex' = [ex EXCEPT ![c] =
            [e EXCEPT !.pc = "returned", !.attempt = a, !.wakeAt = 0,
                      !.since = clock,
                      !.error = FinalError(e.hasLast, e.lastMsg)]]
       /\ UNCHANGED <<lastRequestTime, hist>>
  ELSE LET wait == RateLimitWait(clock, lastRequestTime) IN
       IF wait > 0
       THEN /\ ex' = [ex EXCEPT ![c] =
                 [e EXCEPT !.pc = "rateSleep", !.attempt = a,
                           !.wakeAt = clock + wait]]
            /\ UNCHANGED <<lastRequestTime, hist>>
       ELSE /\ ex' = [ex EXCEPT ![c] =
                 [e EXCEPT !.pc = "inflight", !.attempt = a, !.wakeAt = 0,
                           !.since = clock, !.invocations = @ + 1]]
            /\ Invoke

\* the loop test for attempt number a and, inside the loop, enforceRateLimit
\* up to its sleep or through to the model call
StartAttempt(c, e, a) ==
  IF a >= e.retries
  THEN /\ ex' = [ex EXCEPT ![c] =
            [e EXCEPT !.pc = "returned", !.attempt = a, !.wakeAt = 0,
                      !.since = clock,
                      !.error = FinalError(e.hasLast, e.lastMsg)]]
       /\ UNCHANGED <<lastRequestTime, hist>>
  ELSE LET wait == RateLimitWait(clock, lastRequestTime) IN
       IF wait > 0
       THEN /\ ex' = [ex EXCEPT ![c] =
                 [e EXCEPT !.pc = "rateSleep", !.attempt = a,
                           !.wakeAt = clock + wait]]
            /\ UNCHANGED <<lastRequestTime, hist>>
       ELSE /\ ex' = [ex EXCEPT ![c] =
                 [e EXCEPT !.pc = "inflight", !.attempt = a, !.wakeAt = 0,
                           !.since = clock, !.invocations = @ + 1]]
            /\ Invoke

\* the call of extractPredictionsFromBlock for the caller's next block, up
\* to its first await
ExCall(c, n) ==
  /\ c \in active
  /\ \/ ex[c].pc = "idle"
     \/ ex[c].pc = "returned" /\ ex[c].block + 1 < MaxBlocks
  /\ LET b == IF ex[c].pc = "idle" THEN 0 ELSE ex[c].block + 1
         e == [ExIdle EXCEPT !.block = b, !.retries = n]
     IN IF ~env.gemini
        THEN /\ ex' = [ex EXCEPT ![c] =
                  [e EXCEPT !.pc = "returned", !.since = clock,
                            !.error = NoKeyMsg]]
             /\ UNCHANGED <<lastRequestTime, hist>>
        ELSE StartAttempt(c, e, 0)
  /\ UNCHANGED clock
  /\ UNCHANGED <<runningPipelines, callerVars, worldVars, dbVars, adminVars>>

\* the sleep of enforceRateLimit is over
RateWake(c) ==
  /\ ex[c].pc = "rateSleep"
  /\ clock >= ex[c].wakeAt
  /\ ex' = [ex EXCEPT ![c].pc = "inflight", ![c].wakeAt = 0,
                      ![c].since = clock, ![c].invocations = @ + 1]
  /\ Invoke
  /\ UNCHANGED clock
  /\ UNCHANGED <<runningPipelines, callerVars, worldVars, dbVars, adminVars>>

\* ModelSettles with the parse outside the try block: a reply that does not
\* parse ends the call with its error at once
ModelSettles_ParseOutsideTry(c, o) ==
  /\ ex[c].pc = "inflight"
  /\ LET r == AttemptResult(o) IN
     ex' = [ex EXCEPT ![c] =
       IF r.ok
       THEN [@ EXCEPT !.pc = "returned", !.since = clock, !.settled = o,
                      !.predictions = r.predictions]
       ELSE IF o.kind = "text"
            THEN [@ EXCEPT !.pc = "returned", !.since = clock, !.settled = o,
                           !.error = r.error]
            ELSE [@ EXCEPT !.pc = "backoff", !.settled = o, !.hasLast = TRUE,
                           !.lastMsg = r.error,
                           !.wakeAt = clock + BackoffMs(ex[c].attempt)]]
  /\ UNCHANGED <<clock, lastRequestTime, hist>>
  /\ UNCHANGED <<runningPipelines, callerVars, worldVars, dbVars, adminVars>>

\* generateContent settles; the rest of the try block, or the catch block
\* up to its sleep
ModelSettles(c, o) ==
  /\ ex[c].pc = "inflight"
  /\ LET r == AttemptResult(o) IN
     ex' = [ex EXCEPT ![c] =
       IF r.ok
       THEN [@ EXCEPT !.pc = "returned", !.since = clock, !.settled = o,
                      !.predictions = r.predictions]
       ELSE [@ EXCEPT !.pc = "backoff", !.settled = o, !.hasLast = TRUE,
                      !.lastMsg = r.error,
                      !.wakeAt = clock + BackoffMs(ex[c].attempt)]]
  /\ UNCHANGED <<clock, lastRequestTime, hist>>
  /\ UNCHANGED <<runningPipelines, callerVars, worldVars, dbVars, adminVars>>

\* the backoff sleep is over: attempt++, the loop test, the next attempt
BackoffWake(c) ==
  /\ ex[c].pc = "backoff"
  /\ clock >= ex[c].wakeAt
  /\ StartAttempt(c, ex[c], ex[c].attempt + 1)
  /\ UNCHANGED clock
  /\ UNCHANGED <<runningPipelines, callerVars, worldVars, dbVars, adminVars>>

Sleeping(c) == ex[c].pc \in {"rateSleep", "backoff"}

\* callers whose next step comes from outside: the model has not answered,
\* or the next call has not been made
Pending(c) ==
  \/ ex[c].pc = "inflight"
  \/ ex[c].pc = "idle"
  \/ ex[c].pc = "returned" /\ ex[c].block + 1 < MaxBlocks

\* Time passes.  A timer fires before the clock moves on; while every
\* caller sleeps, the clock moves to the first timer; the model answers and
\* the next call comes within MaxWaitMs.
Tick ==
  /\ \A c \in active : Sleeping(c) => clock < ex[c].wakeAt
  /\ LET timers == {ex[c].wakeAt : c \in {d \in active : Sleeping(d)}}
         pending == {c \in active : Pending(c)}
         first == CHOOSE t \in timers : \A u \in timers : t <= u
         step == IF pending # {} THEN clock + TickMs ELSE first
         next == IF timers # {} THEN Min(step, first) ELSE step
     IN /\ timers # {} \/ pending # {}
        /\ next <= MaxTime
        /\ \A c \in pending : next - ex[c].since <= MaxWaitMs
        /\ clock' = next
  /\ UNCHANGED <<lastRequestTime, ex, hist>>
  /\ UNCHANGED <<runningPipelines, callerVars, worldVars, dbVars, adminVars>>

NextRate ==
  \/ \E c \in Callers, n \in retryArgs : ExCall(c, n)
  \/ \E c \in Callers : RateWake(c)
  \/ \E c \in Callers, o \in AttemptOutcomes : ModelSettles(c, o)
  \/ \E c \in Callers : BackoffWake(c)
  \/ Tick

\* the surroundings of the extractor: who calls it with which retries
InitRateWorld(act, args, envs) ==
  /\ catalog = OneVideo
  /\ active = act
  /\ targets = {}
  /\ callOptions = {}
  /\ faults = {}
  /\ retryArgs \in args
  /\ env \in envs
  /\ seg = SegIdle
  /\ parse = ParseIdle
  /\ limiter = LimiterIdle

\* one caller extracting block after block, as extractPredictionsForVideo
\* does, with one retries argument
InitRateSeq ==
  /\ InitState
  /\ InitRateWorld({"c1"}, {{n} : n \in 0..MaxRetries}, Envs)

SpecRateSeq == InitRateSeq /\ [][NextRate]_vars

\* two callers at once, as two pipeline runs for two channels are
InitRate ==
  /\ InitState
  /\ InitRateWorld(Callers, {{1}}, {[gemini |-> TRUE, youtube |-> TRUE]})

SpecRate == InitRate /\ [][NextRate]_vars

(***************************************************************************)
(* The rate limit and the retry loop                                       *)
(***************************************************************************)
\* the attempt that settled with outcome o failed in the model call
CallFailed(o) == o.kind = "throw"

\* the attempt that settled with outcome o got a text that does not parse
ParseFailed(o) == o.kind = "text" /\ ~parseJsonResponse(o.reply).ok

\* the attempt of caller c settles in this step
Settles(c) == ex[c].pc = "inflight" /\ ex'[c].pc # "inflight"

\* C5: with callers running at once, no two model invocations that follow
\* one another are initiated less than MIN_REQUEST_INTERVAL_MS apart.
C5_NoTwoWithinInterval ==
  ~(hist.n = 2 /\ hist.gap < MIN_REQUEST_INTERVAL_MS)

\* C6: with one caller that extracts block after block, two invocations
\* that follow one another (a retry, or the first attempt of the next block)
\* are at least MIN_REQUEST_INTERVAL_MS apart, and nothing sleeps before
\* the first invocation.
C6_SequentialInterval ==
  /\ hist.n = 2 => hist.gap >= MIN_REQUEST_INTERVAL_MS
  /\ hist.n = 0 => \A c \in active : ~Sleeping(c)
  /\ hist.n = 0 => lastRequestTime = 0
  /\ hist.n > 0 => lastRequestTime >= StartTime

\* a retry in the second block has been invoked
C6_Witness ==
  /\ hist.n = 2
  /\ ex["c1"].pc = "inflight"
  /\ ex["c1"].block = 1
  /\ ex["c1"].attempt = 1
  /\ lastRequestTime = clock

\* C7 as stated: at most retries invocations for a block; a return without
\* error comes from the first attempt whose call and parse succeeded, with
\* its predictions; a return after retries failed attempts has no
\* predictions and the error message of the last attempt.
C7_LastAttemptMessage ==
  \A c \in active :
    /\ ex[c].invocations <= ex[c].retries
    /\ (ex[c].pc = "returned" /\ env.gemini) =>
         IF ex[c].error = Undefined
         THEN /\ ex[c].settled.kind = "text"
              /\ parseJsonResponse(ex[c].settled.reply).ok
              /\ ex[c].predictions =
                   parseJsonResponse(ex[c].settled.reply).predictions
              /\ ex[c].invocations = ex[c].attempt + 1
         ELSE /\ ex[c].invocations = ex[c].retries
              /\ ex[c].predictions = << >>
              /\ ex[c].settled # NoOutcome
              /\ ex[c].error = AttemptResult(ex[c].settled).error

\* C7: at most retries invocations for a block; a return without error
\* comes from the first attempt whose call and parse succeeded, with its
\* predictions, and nothing is invoked for the block after it; a return
\* after retries failed attempts has no predictions and the error message of
\* the last attempt, or 'Max retries exceeded' when that message is empty or
\* retries is 0.
C7_RetryBudget ==
  /\ [](\A c \in active :
          /\ ex[c].invocations <= ex[c].retries
          /\ (ex[c].pc = "returned" /\ env.gemini) =>
               IF ex[c].error = Undefined
               THEN /\ ex[c].settled.kind = "text"
                    /\ parseJsonResponse(ex[c].settled.reply).ok
                    /\ ex[c].predictions =
                         parseJsonResponse(ex[c].settled.reply).predictions
                    /\ ex[c].invocations = ex[c].attempt + 1
               ELSE /\ ex[c].invocations = ex[c].retries
                    /\ ex[c].predictions = << >>
                    /\ ex[c].error =
                         IF ex[c].settled # NoOutcome /\
                            AttemptResult(ex[c].settled).error # ""
                         THEN AttemptResult(ex[c].settled).error
                         ELSE MaxRetriesMsg)
  /\ [][\A c \in active :
          /\ (Settles(c) /\ ~CallFailed(ex'[c].settled)
                         /\ ~ParseFailed(ex'[c].settled)) =>
               ex'[c].pc = "returned"
          /\ (ex[c].pc = "returned" /\ ex'[c] # ex[c]) =>
               ex'[c].block = ex[c].block + 1]_vars

\* three attempts failed, the last with an empty message
C7_Witness ==
  /\ ex["c1"].pc = "returned"
  /\ ex["c1"].retries = DefaultRetries
  /\ ex["c1"].invocations = DefaultRetries
  /\ ex["c1"].settled = Thrown(TRUE, "")
  /\ ex["c1"].error = MaxRetriesMsg

\* C8: an attempt whose reply does not parse ends like an attempt whose
\* model call failed: nothing is returned, no prediction is kept, the
\* caller sleeps min(1000 * 2^attempt, 10000) ms, and the wake-up goes on
\* with attempt + 1 against the same retries.
C8_ParseFailureRetried ==
  [][\A c \in active :
       /\ (Settles(c) /\ (ParseFailed(ex'[c].settled) \/
                          CallFailed(ex'[c].settled))) =>
            /\ ex'[c].pc = "backoff"
            /\ ex'[c].wakeAt =
                 clock + (IF 1000 * Pow2(ex[c].attempt) < 10000
                          THEN 1000 * Pow2(ex[c].attempt) ELSE 10000)
            /\ ex'[c].predictions = << >>
            /\ ex'[c].error = Undefined
            /\ ex'[c].attempt = ex[c].attempt
            /\ ex'[c].retries = ex[c].retries
            /\ ex'[c].invocations = ex[c].invocations
       /\ (ex[c].pc = "backoff" /\ ex'[c].pc # "backoff") =>
            /\ clock = ex[c].wakeAt
            /\ ex'[c].attempt = ex[c].attempt + 1
            /\ ex'[c].retries = ex[c].retries
            /\ ex'[c].predictions = << >>
            /\ ex'[c].pc = "returned" <=> ex'[c].attempt >= ex[c].retries]_vars

\* the fifth attempt got a reply that does not parse and waits the capped
\* backoff
C8_Witness ==
  /\ ex["c1"].pc = "backoff"
  /\ ex["c1"].attempt = 4
  /\ ParseFailed(ex["c1"].settled)
  /\ ex["c1"].wakeAt = clock + 10000

\* a text that says nothing was found: 'no prediction' without a bracketed
\* span, or the empty array
NothingFound(o) ==
  /\ o.kind = "text"
  /\ \/ o.reply.span = "none" /\ o.reply.noPred
     \/ o.reply.span = "valid" /\ o.reply.elems = << >>

\* C33: an attempt whose text says nothing was found ends the call for the
\* block at once: it returns no predictions and no error, nothing sleeps and
\* the model is not invoked again for the block.
C33_NothingFoundIsSuccess ==
  [][\A c \in active :
       /\ (Settles(c) /\ NothingFound(ex'[c].settled)) =>
            /\ ex'[c].pc = "returned"
            /\ ex'[c].predictions = << >>
            /\ ex'[c].error = Undefined
            /\ ex'[c].invocations = ex[c].invocations
       /\ (ex[c].pc = "returned" /\ NothingFound(ex[c].settled)
             /\ ex'[c] # ex[c]) =>
            ex'[c].block = ex[c].block + 1]_vars

C33_Witness ==
  /\ ex["c1"].pc = "returned"
  /\ ex["c1"].settled = Text(Reply("none", TRUE, << >>))
  /\ ex["c1"].error = Undefined
  /\ ex["c1"].predictions = << >>
  /\ ex["c1"].invocations = 1

====
